---------------------------- MODULE Spec2Model ----------------------------
(***************************************************************************)
(* A model of the OpenMetadata export / import scripts (export.py,         *)
(* import.py): the NDJSON writer and loader, the per-type field filter,    *)
(* the configuration loader with its environment overrides, and the        *)
(* export_all / import_all runs.                                           *)
(*                                                                         *)
(* Text is modelled as a sequence of tokens (punctuation, whitespace,      *)
(* newline, literals): json.dump produces tokens, json.loads parses them.  *)
(***************************************************************************)
EXTENDS Integers, Sequences, FiniteSets, TLC

VARIABLES
    nd_pc,          \* position of the NDJSON write / load scenario
    entities,       \* the list handed to _write_ndjson
    file,           \* the <filename>.ndjson file: [mode, data]
    labels,         \* ghost: for a hand-written file, the kind and meaning of each line
    written,        \* return value of _write_ndjson
    loaded,         \* return value of _load_ndjson
    flt_pc,         \* position of the field-filter scenario
    rec,            \* the record handed to _filter_entity_fields
    etype,          \* the entity type handed to _filter_entity_fields
    filtered,       \* its result: [ok, data]
    cfg_pc,         \* position of the construction of an exporter / importer
    tool,           \* "export" or "import"
    config_file,    \* the configuration file: [state, content]
    environ,        \* os.environ: a function from the variables that are set to their values
    config,         \* self.config
    ex_pc,          \* position of an export_all run
    export_config,  \* config['export']['entities']: a function from the flags present to their values
    selected,       \* selected_entities: [given, names]
    service,        \* the remote service and the disk: what exporting each entity type meets
    ex_files,       \* the <entity_name>.ndjson files of the output directory
    to_export,      \* entities_to_export, in iteration order
    ex_i,           \* number of entity types the loop of export_all has processed
    export_calls,   \* the entity names _export_entity_type was called with, in order
    export_stats,   \* self.export_stats
    total_exported, \* total_exported
    export_summary, \* export_summary.json: [written, total, counts]
    ex_disk,        \* the output directory: [mkdir_fails, summary_fails]
    ex_exit,        \* exit status of the export tool: "none" while it runs
    im_pc,          \* position of a run of the import tool
    im_mode,        \* how main was invoked: [kind, entity_type]
    import_config,  \* config['import']: [import_order, skip_on_error, update_existing], the last two optional
    input_dir_exists, \* whether the input directory exists
    in_files,       \* the <entity_type>.ndjson files of the input directory
    to_import,      \* the entity types this run goes through, in order
    im_t,           \* number of entity types finished
    im_entities,    \* entities: what _load_ndjson returned for the current type
    im_r,           \* number of records of the current type handed to _import_entity
    success_count,  \* success_count of the current type
    attempts,       \* every invocation of _import_entity: [pos, type, idx, outcome]
    calls,          \* every create_or_update call made to the service: [type, idx, data]
    errors,         \* self.errors: one [type, idx] per message
    returns,        \* every return of _import_entity_type: [type, n, count]
    import_stats,   \* self.import_stats
    total_imported, \* total_imported
    exit_status,    \* exit status of the process: "none" while it runs
    import_summary, \* import_summary.json
    dry_report,     \* what a dry run printed: [counts, total]
    twin,           \* the same run by an importer whose update_existing differs
    del_pc,         \* position of a run of delete_all_domains.py
    del_environ,    \* os.environ after load_dotenv(), for the delete utility
    domains,        \* what metadata.list_entities(entity=Domain) does: [kind, entities]
    del_i,          \* number of domains the loop has gone through
    deletes,        \* every metadata.delete call: [id, ok]
    del_exit        \* exit status of the delete utility: "none" while it runs

ndVars == <<nd_pc, entities, file, labels, written, loaded>>
fltVars == <<flt_pc, rec, etype, filtered>>
cfgVars == <<cfg_pc, tool, config_file, environ, config>>
exVars == <<ex_pc, export_config, selected, service, ex_files, to_export, ex_i,
            export_calls, export_stats, total_exported, export_summary, ex_disk, ex_exit>>
imVars == <<im_pc, im_mode, import_config, input_dir_exists, in_files, to_import, im_t,
            im_entities, im_r, success_count, attempts, calls, errors, returns,
            import_stats, total_imported, exit_status, import_summary, dry_report,
            twin>>
delVars == <<del_pc, del_environ, domains, del_i, deletes, del_exit>>

vars == <<ndVars, fltVars, cfgVars, exVars, imVars, delVars>>

\* what the actions of one scenario leave alone
ndOthers == <<fltVars, cfgVars, exVars, imVars, delVars>>
fltOthers == <<ndVars, cfgVars, exVars, imVars, delVars>>
cfgOthers == <<ndVars, fltVars, exVars, imVars, delVars>>
exOthers == <<ndVars, fltVars, cfgVars, imVars, delVars>>
imOthers == <<ndVars, fltVars, cfgVars, exVars, delVars>>
delOthers == <<ndVars, fltVars, cfgVars, exVars, imVars>>

(***************************************************************************)
(* Bounds of the model.                                                    *)
(***************************************************************************)
MaxEntities == 2    \* longest list of entities written by _write_ndjson
MaxLines == 2       \* most lines of a hand-written NDJSON file
MaxFields == 2      \* most fields of a record handed to _filter_entity_fields
MaxEnvVars == 2     \* most environment variables set at once
MaxEnabled == 2     \* most enable flags that are true in the export configuration
MaxSelected == 2    \* longest explicit selection handed to export_all
MaxOrder == 2       \* longest import_order
LongFileRecords == 12   \* records of the long input file
MaxDomains == 3     \* most domains the listing returns to the delete utility

(***************************************************************************)
(* Python values: the tag t and the payload v.                             *)
(***************************************************************************)
PyNone == [t |-> "none", v |-> "None"]
PyBool(b) == [t |-> "bool", v |-> b]
PyInt(i) == [t |-> "int", v |-> i]
PyStr(s) == [t |-> "str", v |-> s]
PyList(items) == [t |-> "list", v |-> items]
PyTuple(items) == [t |-> "tuple", v |-> items]
\* a dict: its items <<key, value>> in insertion order, the keys distinct
PyDict(items) == [t |-> "dict", v |-> items]
\* an object json cannot serialize (a UUID, a datetime, an Enum); s is str(object)
PyObj(s) == [t |-> "obj", v |-> s]

(***************************************************************************)
(* Tokens of a text file.                                                  *)
(***************************************************************************)
Tok(k, v) == [k |-> k, v |-> v]
LBRACE == Tok("p", "{")
RBRACE == Tok("p", "}")
LBRACKET == Tok("p", "[")
RBRACKET == Tok("p", "]")
COMMA == Tok("p", ",")
COLON == Tok("p", ":")
SPACE == Tok("w", " ")
NEWLINE == Tok("w", "\n")
Lit(s) == Tok("lit", s)
Num(s) == Tok("num", s)
StrLit(s) == Tok("str", s)
\* a character that starts no JSON value
JUNK == Tok("x", "?")

\* the integers whose decimal form the parser knows
Ints == 0..9

(***************************************************************************)
(* json.dump(entity, f, ensure_ascii=False, default=str)                   *)
(***************************************************************************)
\* a dict key as json writes it: str as is, int / bool / None coerced to text
JsonKey(k) ==
    CASE k.t = "str" -> k.v
      [] k.t = "int" -> ToString(k.v)
      [] k.t = "bool" -> (IF k.v THEN "true" ELSE "false")
      [] k.t = "none" -> "null"

RECURSIVE JsonDump(_)
RECURSIVE DumpItems(_)
RECURSIVE DumpMembers(_)
JsonDump(o) ==
    CASE o.t = "none" -> <<Lit("null")>>
      [] o.t = "bool" -> <<Lit(IF o.v THEN "true" ELSE "false")>>
      [] o.t = "int" -> <<Num(ToString(o.v))>>
      [] o.t = "str" -> <<StrLit(o.v)>>
      [] o.t \in {"list", "tuple"} -> <<LBRACKET>> \o DumpItems(o.v) \o <<RBRACKET>>
      [] o.t = "dict" -> <<LBRACE>> \o DumpMembers(o.v) \o <<RBRACE>>
      [] o.t = "obj" -> JsonDump(PyStr(o.v))      \* default=str

DumpItems(items) ==
    IF items = <<>> THEN <<>>
    ELSE IF Len(items) = 1 THEN JsonDump(items[1])
    ELSE JsonDump(items[1]) \o <<COMMA, SPACE>> \o DumpItems(Tail(items))

DumpMembers(items) ==
    IF items = <<>> THEN <<>>
    ELSE LET m == <<StrLit(JsonKey(items[1][1])), COLON, SPACE>> \o JsonDump(items[1][2])
         IN  IF Len(items) = 1 THEN m
             ELSE m \o <<COMMA, SPACE>> \o DumpMembers(Tail(items))

(***************************************************************************)
(* json.loads(line)                                                        *)
(***************************************************************************)
RECURSIVE SkipWs(_)
SkipWs(s) == IF s # <<>> /\ Head(s).k = "w" THEN SkipWs(Tail(s)) ELSE s

ParseFail == [ok |-> FALSE, val |-> PyNone, rest |-> <<>>]
ParseOk(val, rest) == [ok |-> TRUE, val |-> val, rest |-> rest]

\* d[key] = val on the items of a dict: a repeated key keeps its place, takes the new value
RECURSIVE DictSet(_, _, _)
DictSet(items, key, val) ==
    IF items = <<>> THEN << <<key, val>> >>
    ELSE IF items[1][1] = key THEN << <<key, val>> >> \o Tail(items)
    ELSE <<items[1]>> \o DictSet(Tail(items), key, val)

RECURSIVE ParseValue(_)
RECURSIVE ParseItems(_, _)
RECURSIVE ParseMembers(_, _)
\* s starts at the first character of a value
ParseValue(s) ==
    IF s = <<>> THEN ParseFail
    ELSE LET h == Head(s)
             r == SkipWs(Tail(s))
         IN  CASE h.k = "lit" /\ h.v = "null" -> ParseOk(PyNone, Tail(s))
               [] h.k = "lit" /\ h.v = "true" -> ParseOk(PyBool(TRUE), Tail(s))
               [] h.k = "lit" /\ h.v = "false" -> ParseOk(PyBool(FALSE), Tail(s))
               [] h.k = "num" /\ (\E i \in Ints : ToString(i) = h.v) ->
                      ParseOk(PyInt(CHOOSE i \in Ints : ToString(i) = h.v), Tail(s))
               [] h.k = "str" -> ParseOk(PyStr(h.v), Tail(s))
               [] h = LBRACKET ->
                      IF r # <<>> /\ Head(r) = RBRACKET
                      THEN ParseOk(PyList(<<>>), Tail(r))
                      ELSE ParseItems(r, <<>>)
               [] h = LBRACE ->
                      IF r # <<>> /\ Head(r) = RBRACE
                      THEN ParseOk(PyDict(<<>>), Tail(r))
                      ELSE ParseMembers(r, <<>>)
               [] OTHER -> ParseFail

\* the items of an array, s at the first character of the next item
ParseItems(s, acc) ==
    LET e == ParseValue(s)
        r == SkipWs(e.rest)
    IN  IF ~e.ok \/ r = <<>> THEN ParseFail
        ELSE IF Head(r) = COMMA THEN ParseItems(SkipWs(Tail(r)), Append(acc, e.val))
        ELSE IF Head(r) = RBRACKET THEN ParseOk(PyList(Append(acc, e.val)), Tail(r))
        ELSE ParseFail

\* the members of an object, s at the first character of the next key
ParseMembers(s, acc) ==
    IF s = <<>> \/ Head(s).k # "str" THEN ParseFail
    ELSE LET key == PyStr(Head(s).v)
             c == SkipWs(Tail(s))
         IN  IF c = <<>> \/ Head(c) # COLON THEN ParseFail
             ELSE LET e == ParseValue(SkipWs(Tail(c)))
                      r == SkipWs(e.rest)
                      items == DictSet(acc, key, e.val)
                  IN  IF ~e.ok \/ r = <<>> THEN ParseFail
                      ELSE IF Head(r) = COMMA THEN ParseMembers(SkipWs(Tail(r)), items)
                      ELSE IF Head(r) = RBRACE THEN ParseOk(PyDict(items), Tail(r))
                      ELSE ParseFail

\* [ok, val]: ok is FALSE where json.loads raises JSONDecodeError
JsonLoads(line) ==
    LET e == ParseValue(SkipWs(line))
    IN  IF e.ok /\ SkipWs(e.rest) = <<>> THEN ParseOk(e.val, <<>>) ELSE ParseFail

(***************************************************************************)
(* Files.  mode: "absent" (no such file), "ok", or "unreadable" (open or   *)
(* read raises: permissions, undecodable bytes).                           *)
(***************************************************************************)
AbsentFile == [mode |-> "absent", data |-> <<>>]
TextFile(data) == [mode |-> "ok", data |-> data]
UnreadableFile == [mode |-> "unreadable", data |-> <<>>]

\* the text of the lines, each ended by a newline
RECURSIVE JoinLines(_)
JoinLines(lines) ==
    IF lines = <<>> THEN <<>>
    ELSE lines[1] \o <<NEWLINE>> \o JoinLines(Tail(lines))

\* "for line in f": the pieces between newlines, a last unterminated piece included
RECURSIVE SplitLines(_, _)
SplitLines(data, cur) ==
    IF data = <<>> THEN (IF cur = <<>> THEN <<>> ELSE <<cur>>)
    ELSE IF Head(data) = NEWLINE THEN <<cur>> \o SplitLines(Tail(data), <<>>)
    ELSE SplitLines(Tail(data), Append(cur, Head(data)))

\* line.strip()
RECURSIVE RStrip(_)
RStrip(s) == IF s # <<>> /\ s[Len(s)].k = "w" THEN RStrip(SubSeq(s, 1, Len(s) - 1)) ELSE s
Strip(s) == RStrip(SkipWs(s))

(***************************************************************************)
(* OpenMetadataExporter._write_ndjson.  fault: "none"; "open" (open raises,*)
(* nothing is touched); "write" (an entity fails to be written after k     *)
(* lines reached the file).  Returns [count, file].                        *)
(***************************************************************************)
RECURSIVE DumpLines(_)
DumpLines(ents) ==
    IF ents = <<>> THEN <<>>
    ELSE JsonDump(ents[1]) \o <<NEWLINE>> \o DumpLines(Tail(ents))

_write_ndjson_append(ents, f, fault, k) ==
    CASE fault = "open" -> [count |-> 0, file |-> f]
      [] fault = "write" -> [count |-> 0, file |-> TextFile(DumpLines(SubSeq(ents, 1, k)))]
      [] OTHER -> [count |-> Len(ents),
                   file |-> TextFile((IF f.mode = "ok" THEN f.data ELSE <<>>) \o DumpLines(ents))]

_write_ndjson_no_newline(ents, f, fault, k) ==
    CASE fault = "open" -> [count |-> 0, file |-> f]
      [] fault = "write" -> [count |-> 0, file |-> TextFile(DumpLines(SubSeq(ents, 1, k)))]
      [] OTHER -> [count |-> Len(ents),
                   file |-> TextFile(SelectSeq(DumpLines(ents), LAMBDA c : c # NEWLINE))]

_write_ndjson(ents, f, fault, k) ==
    CASE fault = "open" -> [count |-> 0, file |-> f]
      [] fault = "write" -> [count |-> 0, file |-> TextFile(DumpLines(SubSeq(ents, 1, k)))]
      [] OTHER -> [count |-> Len(ents), file |-> TextFile(DumpLines(ents))]

(***************************************************************************)
(* OpenMetadataImporter._load_ndjson                                       *)
(***************************************************************************)
RECURSIVE LoadLines(_)
LoadLines(lines) ==
    IF lines = <<>> THEN <<>>
    ELSE LET line == Strip(lines[1])
             e == JsonLoads(line)
         IN  IF line # <<>> /\ e.ok
             THEN <<e.val>> \o LoadLines(Tail(lines))
             ELSE LoadLines(Tail(lines))          \* blank, or JSONDecodeError: next line

\* a loader that gives up on the file at the first line that does not parse
RECURSIVE LoadLinesAbort(_)
LoadLinesAbort(lines) ==
    IF lines = <<>> THEN <<>>
    ELSE LET line == Strip(lines[1])
             e == JsonLoads(line)
         IN  IF line = <<>> THEN LoadLinesAbort(Tail(lines))
             ELSE IF e.ok THEN <<e.val>> \o LoadLinesAbort(Tail(lines))
             ELSE <<>>

_load_ndjson_abort(f) ==
    IF f.mode = "ok" THEN LoadLinesAbort(SplitLines(f.data, <<>>)) ELSE <<>>

_load_ndjson(f) ==
    IF f.mode = "ok" THEN LoadLines(SplitLines(f.data, <<>>))
    ELSE <<>>       \* FileNotFoundError, or any other exception while reading

(***************************************************************************)
(* Python dict and str helpers.                                            *)
(***************************************************************************)
DictKeys(d) == {d.v[i][1] : i \in 1..Len(d.v)}
DictHas(d, key) == \E i \in 1..Len(d.v) : d.v[i][1] = key
\* d[key], for a key of d
DictGet(d, key) == d.v[CHOOSE i \in 1..Len(d.v) : d.v[i][1] = key][2]
\* {k: v for k, v in d.items() if k in keep}
DictFilter(d, keep) == PyDict(SelectSeq(d.v, LAMBDA item : item[1] \in keep))
\* d with d[key] = val
DictWith(d, key, val) == PyDict(DictSet(d.v, key, val))

\* str(o), for the values a name may hold
PyStrOf(o) ==
    CASE o.t = "str" -> o.v
      [] o.t = "int" -> ToString(o.v)
      [] o.t = "none" -> "None"
      [] o.t = "bool" -> (IF o.v THEN "True" ELSE "False")
      [] o.t = "obj" -> o.v
      [] o.t = "list" /\ o.v = <<>> -> "[]"
      [] o.t = "tuple" /\ o.v = <<>> -> "()"
      [] o.t = "dict" /\ o.v = <<>> -> "{}"

(***************************************************************************)
(* OpenMetadataImporter._filter_entity_fields                              *)
(***************************************************************************)
StrKeys(names) == {PyStr(n) : n \in names}

\* the entity types that have an allow-list
FilteredTypes == {"data_products", "domains", "teams"}

\* allowed_fields, for an entity type that has one
allowed_fields(entity_type) ==
    CASE entity_type = "data_products" ->
             StrKeys({"name", "displayName", "description", "fullyQualifiedName",
                      "owners", "experts", "domain", "assets", "tags", "extension"})
      [] entity_type = "domains" ->
             StrKeys({"name", "displayName", "description", "fullyQualifiedName",
                      "domainType", "parent", "owners", "experts", "tags", "extension"})
      [] entity_type = "teams" ->
             StrKeys({"name", "displayName", "description", "fullyQualifiedName",
                      "teamType", "email", "parents", "users", "owners", "defaultRoles"})

\* filtered_data['domain'] of a data product: a dict becomes its fullyQualifiedName,
\* or str() of its name, or ''
DomainRef(domain) ==
    IF domain.t # "dict" THEN domain
    ELSE IF DictHas(domain, PyStr("fullyQualifiedName"))
         THEN DictGet(domain, PyStr("fullyQualifiedName"))
    ELSE IF DictHas(domain, PyStr("name"))
         THEN PyStr(PyStrOf(DictGet(domain, PyStr("name"))))
    ELSE PyStr("")

\* a filter that treats teams like the types without an allow-list
_filter_entity_fields_teams_as_is(entity_data, entity_type) ==
    IF entity_type \in {"data_products", "domains"} /\ entity_data.t # "dict"
    THEN [ok |-> FALSE, data |-> entity_data]
    ELSE IF entity_type = "data_products"
    THEN LET filtered_data == DictFilter(entity_data, allowed_fields("data_products"))
         IN  [ok |-> TRUE,
              data |-> IF DictHas(filtered_data, PyStr("domain"))
                       THEN DictWith(filtered_data, PyStr("domain"),
                                     DomainRef(DictGet(filtered_data, PyStr("domain"))))
                       ELSE filtered_data]
    ELSE IF entity_type = "domains"
    THEN [ok |-> TRUE, data |-> DictFilter(entity_data, allowed_fields(entity_type))]
    ELSE [ok |-> TRUE, data |-> entity_data]

\* [ok, data]: ok is FALSE where the code raises (entity_data has no items())
_filter_entity_fields(entity_data, entity_type) ==
    IF entity_type \in FilteredTypes /\ entity_data.t # "dict"
    THEN [ok |-> FALSE, data |-> entity_data]
    ELSE IF entity_type = "data_products"
    THEN LET filtered_data == DictFilter(entity_data, allowed_fields("data_products"))
         IN  [ok |-> TRUE,
              data |-> IF DictHas(filtered_data, PyStr("domain"))
                       THEN DictWith(filtered_data, PyStr("domain"),
                                     DomainRef(DictGet(filtered_data, PyStr("domain"))))
                       ELSE filtered_data]
    ELSE IF entity_type \in {"domains", "teams"}
    THEN [ok |-> TRUE, data |-> DictFilter(entity_data, allowed_fields(entity_type))]
    ELSE [ok |-> TRUE, data |-> entity_data]      \* other types: returned as is

(***************************************************************************)
(* Configuration: _load_config and _apply_env_overrides.  The nested       *)
(* mapping is flattened: config.server_url is                              *)
(* config['openmetadata']['server_url'], config.skip_on_error is           *)
(* config['import']['skip_on_error'], and so on.                           *)
(***************************************************************************)
\* os.getenv(name) is truthy: the variable is set and not empty
EnvTruthy(env, name) == name \in DOMAIN env /\ env[name] # ""

\* s.lower(), for the values a flag variable may hold
Lower(s) ==
    CASE s \in {"TRUE", "True"} -> "true"
      [] s \in {"FALSE", "False"} -> "false"
      [] s = "YES" -> "yes"
      [] OTHER -> s

\* OpenMetadataExporter._apply_env_overrides
Exporter_apply_env_overrides(cfg, env) ==
    [cfg EXCEPT
        !.server_url = IF EnvTruthy(env, "OPENMETADATA_SERVER_URL")
                       THEN env["OPENMETADATA_SERVER_URL"] ELSE @,
        !.jwt_token = IF EnvTruthy(env, "OPENMETADATA_JWT_TOKEN")
                      THEN env["OPENMETADATA_JWT_TOKEN"] ELSE @,
        !.output_dir = IF EnvTruthy(env, "EXPORT_OUTPUT_DIR")
                       THEN env["EXPORT_OUTPUT_DIR"] ELSE @]

\* an importer that reads the flag variables without lower()
Importer_apply_env_overrides_case_sensitive(cfg, env) ==
    [cfg EXCEPT
        !.server_url = IF EnvTruthy(env, "OPENMETADATA_SERVER_URL")
                       THEN env["OPENMETADATA_SERVER_URL"] ELSE @,
        !.jwt_token = IF EnvTruthy(env, "OPENMETADATA_JWT_TOKEN")
                      THEN env["OPENMETADATA_JWT_TOKEN"] ELSE @,
        !.input_dir = IF EnvTruthy(env, "IMPORT_INPUT_DIR")
                      THEN env["IMPORT_INPUT_DIR"] ELSE @,
        !.update_existing = IF EnvTruthy(env, "IMPORT_UPDATE_EXISTING")
                            THEN env["IMPORT_UPDATE_EXISTING"] = "true" ELSE @,
        !.skip_on_error = IF EnvTruthy(env, "IMPORT_SKIP_ON_ERROR")
                          THEN env["IMPORT_SKIP_ON_ERROR"] = "true" ELSE @,
        !.level = IF EnvTruthy(env, "LOG_LEVEL") THEN env["LOG_LEVEL"] ELSE @]

\* OpenMetadataImporter._apply_env_overrides
Importer_apply_env_overrides(cfg, env) ==
    [cfg EXCEPT
        !.server_url = IF EnvTruthy(env, "OPENMETADATA_SERVER_URL")
                       THEN env["OPENMETADATA_SERVER_URL"] ELSE @,
        !.jwt_token = IF EnvTruthy(env, "OPENMETADATA_JWT_TOKEN")
                      THEN env["OPENMETADATA_JWT_TOKEN"] ELSE @,
        !.input_dir = IF EnvTruthy(env, "IMPORT_INPUT_DIR")
                      THEN env["IMPORT_INPUT_DIR"] ELSE @,
        !.update_existing = IF EnvTruthy(env, "IMPORT_UPDATE_EXISTING")
                            THEN Lower(env["IMPORT_UPDATE_EXISTING"]) = "true" ELSE @,
        !.skip_on_error = IF EnvTruthy(env, "IMPORT_SKIP_ON_ERROR")
                          THEN Lower(env["IMPORT_SKIP_ON_ERROR"]) = "true" ELSE @,
        !.level = IF EnvTruthy(env, "LOG_LEVEL") THEN env["LOG_LEVEL"] ELSE @]

(***************************************************************************)
(* OpenMetadataExporter.export_all and _export_entity_type                 *)
(***************************************************************************)
\* entity_mappings: the entity names export_all knows, in dict order
entity_mappings ==
    <<"teams", "users", "policies", "domains", "glossaries", "glossary_terms",
      "databases", "database_schemas", "tables", "data_products">>

Range(seq) == {seq[i] : i \in 1..Len(seq)}

\* the keys of {name: ... for name in names}: each name once, at its first place
RECURSIVE DictOrder(_)
DictOrder(names) ==
    IF names = <<>> THEN <<>>
    ELSE LET front == DictOrder(SubSeq(names, 1, Len(names) - 1))
             last == names[Len(names)]
         IN  IF last \in Range(front) THEN front ELSE Append(front, last)

\* a count that is kept only when something was exported or imported
record_count_if_positive(stats, name, count) ==
    IF count > 0
    THEN [key \in DOMAIN stats \cup {name} |-> IF key = name THEN count ELSE stats[key]]
    ELSE stats

\* self.export_stats[entity_name] = count, resp. self.import_stats[entity_type] = count
record_count(stats, name, count) ==
    [key \in DOMAIN stats \cup {name} |-> IF key = name THEN count ELSE stats[key]]

\* export_config.get(name, False)
FlagOn(flags, name) == name \in DOMAIN flags /\ flags[name]

\* a selection that reads an absent flag as true
entities_to_export_default_true(sel, flags) ==
    IF sel.given /\ sel.names # <<>>
    THEN DictOrder(SelectSeq(sel.names, LAMBDA name : name \in Range(entity_mappings)))
    ELSE SelectSeq(entity_mappings, LAMBDA name : name \notin DOMAIN flags \/ flags[name])

\* a selection that exports a selected type only if its flag is on
entities_to_export_selected_and_enabled(sel, flags) ==
    IF sel.given /\ sel.names # <<>>
    THEN DictOrder(SelectSeq(sel.names, LAMBDA name : name \in Range(entity_mappings)
                                                      /\ FlagOn(flags, name)))
    ELSE SelectSeq(entity_mappings, LAMBDA name : FlagOn(flags, name))

\* the keys of entities_to_export, in iteration order
entities_to_export(sel, flags) ==
    IF sel.given /\ sel.names # <<>>
    THEN DictOrder(SelectSeq(sel.names, LAMBDA name : name \in Range(entity_mappings)))
    ELSE SelectSeq(entity_mappings, LAMBDA name : FlagOn(flags, name))

\* what exporting one entity type meets.  list: "raise" (list_entities raises),
\* "no_attr" (the response has no entities attribute) or "ok"; ents: the entities of
\* the response, each [convertible, dict]; fault, k: the fault of the file write
Meets(list, ents, fault, k) == [list |-> list, ents |-> ents, fault |-> fault, k |-> k]
SdkEntity(d) == [convertible |-> TRUE, dict |-> d]
\* an object without model_dump, dict and __dict__ that dict() rejects
Unconvertible == [convertible |-> FALSE, dict |-> PyNone]

\* an _export_entity_type that reports the entities retrieved even when the write fails
_export_entity_type_counts_retrieved(meets, f) ==
    IF meets.list = "raise" THEN [count |-> 0, file |-> f]
    ELSE LET ents == IF meets.list = "ok" THEN meets.ents ELSE <<>>
         IN  IF \E i \in 1..Len(ents) : ~ents[i].convertible
             THEN [count |-> 0, file |-> f]
             ELSE [count |-> Len(ents),
                   file |-> _write_ndjson([i \in 1..Len(ents) |-> ents[i].dict], f,
                                          meets.fault, meets.k).file]

\* an _export_entity_type that opens the file for writing before it lists the entities
_export_entity_type_opens_first(meets, f) ==
    IF meets.list = "raise" THEN [count |-> 0, file |-> TextFile(<<>>)]
    ELSE LET ents == IF meets.list = "ok" THEN meets.ents ELSE <<>>
         IN  IF \E i \in 1..Len(ents) : ~ents[i].convertible
             THEN [count |-> 0, file |-> TextFile(<<>>)]
             ELSE _write_ndjson([i \in 1..Len(ents) |-> ents[i].dict], f, meets.fault, meets.k)

\* _export_entity_type(entity_name, entity_class, output_dir): [count, file]
_export_entity_type(meets, f) ==
    IF meets.list = "raise" THEN [count |-> 0, file |-> f]
    ELSE LET ents == IF meets.list = "ok" THEN meets.ents ELSE <<>>
         IN  IF \E i \in 1..Len(ents) : ~ents[i].convertible
             THEN [count |-> 0, file |-> f]
             ELSE _write_ndjson([i \in 1..Len(ents) |-> ents[i].dict], f, meets.fault, meets.k)

(***************************************************************************)
(* OpenMetadataImporter._import_entity and _import_entity_type             *)
(***************************************************************************)
\* the entity types _import_entity has a creation path for
ImplementedTypes == {"data_products", "domains", "teams", "users", "policies"}

\* self.config['import'].get('skip_on_error', True)
SkipOnError(icfg) == IF "skip_on_error" \in DOMAIN icfg THEN icfg.skip_on_error ELSE TRUE

\* What one invocation of _import_entity does.  sdk is what the SDK does with the
\* record when it gets that far: "ok", "invalid" (the request constructor raises) or
\* "error" (the create_or_update call raises).  outcome: "ok" (returns True),
\* "unimplemented" (returns False without an error), "invalid" or "error" (the
\* exception handler ran); call: whether the service was called; raises: whether
\* the exception leaves _import_entity.
ImportResult(outcome, call, data, raises) ==
    [outcome |-> outcome, call |-> call, data |-> data, raises |-> raises]

\* an _import_entity that submits the records of every entity type
_import_entity_any_type(entity_data, entity_type, sdk, icfg) ==
    LET filtered_data == _filter_entity_fields(entity_data, entity_type)
    IN  IF ~filtered_data.ok
        THEN ImportResult("invalid", FALSE, PyNone, ~SkipOnError(icfg))
        ELSE IF filtered_data.data.t # "dict" \/ sdk = "invalid"
        THEN ImportResult("invalid", FALSE, PyNone, ~SkipOnError(icfg))
        ELSE ImportResult(sdk, TRUE, filtered_data.data, sdk = "error" /\ ~SkipOnError(icfg))

\* an _import_entity that raises for an entity type it has no creation path for
_import_entity_unimplemented_raises(entity_data, entity_type, sdk, icfg) ==
    LET filtered_data == _filter_entity_fields(entity_data, entity_type)
    IN  IF ~filtered_data.ok
        THEN ImportResult("invalid", FALSE, PyNone, ~SkipOnError(icfg))
        ELSE IF entity_type \notin ImplementedTypes
        THEN ImportResult("unimplemented", FALSE, PyNone, TRUE)
        ELSE IF filtered_data.data.t # "dict" \/ sdk = "invalid"
        THEN ImportResult("invalid", FALSE, PyNone, ~SkipOnError(icfg))
        ELSE ImportResult(sdk, TRUE, filtered_data.data, sdk = "error" /\ ~SkipOnError(icfg))

\* an _import_entity that swallows every failure
_import_entity_always_skip(entity_data, entity_type, sdk, icfg) ==
    LET filtered_data == _filter_entity_fields(entity_data, entity_type)
    IN  IF ~filtered_data.ok THEN ImportResult("invalid", FALSE, PyNone, FALSE)
        ELSE IF entity_type \notin ImplementedTypes
        THEN ImportResult("unimplemented", FALSE, PyNone, FALSE)
        ELSE IF filtered_data.data.t # "dict" \/ sdk = "invalid"
        THEN ImportResult("invalid", FALSE, PyNone, FALSE)
        ELSE ImportResult(sdk, TRUE, filtered_data.data, FALSE)

\* an _import_entity that re-raises every failure
_import_entity_always_raise(entity_data, entity_type, sdk, icfg) ==
    LET filtered_data == _filter_entity_fields(entity_data, entity_type)
    IN  IF ~filtered_data.ok THEN ImportResult("invalid", FALSE, PyNone, TRUE)
        ELSE IF entity_type \notin ImplementedTypes
        THEN ImportResult("unimplemented", FALSE, PyNone, FALSE)
        ELSE IF filtered_data.data.t # "dict" \/ sdk = "invalid"
        THEN ImportResult("invalid", FALSE, PyNone, TRUE)
        ELSE ImportResult(sdk, TRUE, filtered_data.data, sdk = "error")

\* an _import_entity that leaves the service alone unless update_existing is on
_import_entity_update_only(entity_data, entity_type, sdk, icfg) ==
    LET filtered_data == _filter_entity_fields(entity_data, entity_type)
    IN  IF ~filtered_data.ok
        THEN ImportResult("invalid", FALSE, PyNone, ~SkipOnError(icfg))
        ELSE IF entity_type \notin ImplementedTypes
        THEN ImportResult("unimplemented", FALSE, PyNone, FALSE)
        ELSE IF ~("update_existing" \in DOMAIN icfg /\ icfg.update_existing)
        THEN ImportResult("unimplemented", FALSE, PyNone, FALSE)
        ELSE IF filtered_data.data.t # "dict" \/ sdk = "invalid"
        THEN ImportResult("invalid", FALSE, PyNone, ~SkipOnError(icfg))
        ELSE ImportResult(sdk, TRUE, filtered_data.data, sdk = "error" /\ ~SkipOnError(icfg))

_import_entity(entity_data, entity_type, sdk, icfg) ==
    LET filtered_data == _filter_entity_fields(entity_data, entity_type)
    IN  IF ~filtered_data.ok                       \* entity_data.items() raises
        THEN ImportResult("invalid", FALSE, PyNone, ~SkipOnError(icfg))
        ELSE IF entity_type \notin ImplementedTypes
        THEN ImportResult("unimplemented", FALSE, PyNone, FALSE)
        ELSE IF filtered_data.data.t # "dict" \/ sdk = "invalid"   \* Create...Request(**filtered_data) raises
        THEN ImportResult("invalid", FALSE, PyNone, ~SkipOnError(icfg))
        ELSE ImportResult(sdk, TRUE, filtered_data.data, sdk = "error" /\ ~SkipOnError(icfg))

\* an _import_entity_type that imports a placeholder record for a file that is absent
_import_entity_type_placeholder(f) ==
    IF f.mode = "absent" THEN [loop |-> TRUE, entities |-> <<PyDict(<<>>)>>]
    ELSE LET ents == _load_ndjson(f)
         IN  [loop |-> ents # <<>>, entities |-> ents]

\* an _import_entity_type that goes through the file from its last record to its first
_import_entity_type_reversed(f) ==
    IF f.mode = "absent" THEN [loop |-> FALSE, entities |-> <<>>]
    ELSE LET ents == _load_ndjson(f)
         IN  [loop |-> ents # <<>>,
              entities |-> [i \in 1..Len(ents) |-> ents[Len(ents) + 1 - i]]]

\* _import_entity_type, up to its loop: whether the loop is entered, and over what
_import_entity_type(f) ==
    IF f.mode = "absent" THEN [loop |-> FALSE, entities |-> <<>>]
    ELSE LET ents == _load_ndjson(f)
         IN  [loop |-> ents # <<>>, entities |-> ents]

\* self.errors[:10]
ErrorsShown == 10

\* a summary that lists every error
SummaryErrors_all(errs) == errs

\* self.errors[:10] if self.errors else []
SummaryErrors(errs) ==
    SubSeq(errs, 1, IF Len(errs) < ErrorsShown THEN Len(errs) ELSE ErrorsShown)

RECURSIVE SumCounts(_)
SumCounts(counts) ==
    IF counts = <<>> THEN 0 ELSE counts[1].n + SumCounts(Tail(counts))

\* a dry run that counts the non-blank lines of a file
dry_run_counts_lines(mode, order, files) ==
    LET types == IF mode.kind = "dry_single" THEN <<mode.entity_type>> ELSE order
        present == SelectSeq(types, LAMBDA et : files[et].mode # "absent")
        counts == [i \in 1..Len(present) |->
                      [type |-> present[i],
                       n |-> Len(SelectSeq(SplitLines(files[present[i]].data, <<>>),
                                           LAMBDA line : Strip(line) # <<>>))]]
    IN  [counts |-> counts,
         total |-> IF mode.kind = "dry_single" THEN <<>> ELSE <<SumCounts(counts)>>]

\* main with --dry-run: what it prints, the "Would import n type entities" lines and
\* the "Total entities to import" line
dry_run(mode, order, files) ==
    LET types == IF mode.kind = "dry_single" THEN <<mode.entity_type>> ELSE order
        present == SelectSeq(types, LAMBDA et : files[et].mode # "absent")
        counts == [i \in 1..Len(present) |->
                      [type |-> present[i], n |-> Len(_load_ndjson(files[present[i]]))]]
    IN  [counts |-> counts,
         total |-> IF mode.kind = "dry_single" THEN <<>> ELSE <<SumCounts(counts)>>]

(***************************************************************************)
(* delete_all_domains.py                                                   *)
(***************************************************************************)
\* a loop that a failed deletion leaves
delete_continues_if_ok(ok) == ok

\* try: metadata.delete(...) except Exception: whether the loop goes on after a
\* deletion that succeeded (ok) or raised
delete_continues(ok) == TRUE

(***************************************************************************)
(* Inputs of the NDJSON scenario.                                          *)
(***************************************************************************)
\* all sequences over S of length at most n
SeqsUpTo(S, n) == UNION {[1..k -> S] : k \in 0..n}

Dict1(k, val) == PyDict(<< <<k, val>> >>)
Dict2(k1, v1, k2, v2) == PyDict(<< <<k1, v1>>, <<k2, v2>> >>)

\* entity mappings as model_dump() may return them
EntityUniverse ==
    { PyDict(<<>>),
      Dict2(PyStr("id"), PyStr("1"), PyStr("name"), PyStr("entity1")),
      Dict1(PyStr("id"), PyInt(2)),
      Dict1(PyStr("deleted"), PyBool(FALSE)),
      Dict1(PyStr("parent"), PyNone),
      Dict1(PyStr("owners"), PyList(<<PyStr("a"), PyInt(1)>>)),
      Dict1(PyStr("domain"), Dict1(PyStr("name"), PyList(<<>>))),
      Dict1(PyStr("id"), PyObj("uuid-1")),
      Dict1(PyStr("tags"), PyList(<<PyObj("Tier1")>>)),
      Dict1(PyStr("version"), PyTuple(<<PyInt(0), PyInt(1)>>)),
      Dict1(PyStr("extension"), Dict1(PyStr("k"), PyTuple(<<>>))),
      Dict1(PyInt(1), PyStr("a")),
      Dict2(PyInt(1), PyStr("a"), PyStr("1"), PyStr("b")) }

EntityLists == SeqsUpTo(EntityUniverse, MaxEntities)

\* json.dump needs no default= for o: no object it cannot serialize
RECURSIVE JsonSerializable(_)
JsonSerializable(o) ==
    CASE o.t \in {"list", "tuple"} -> \A i \in 1..Len(o.v) : JsonSerializable(o.v[i])
      [] o.t = "dict" -> \A i \in 1..Len(o.v) : JsonSerializable(o.v[i][2])
      [] o.t = "obj" -> FALSE
      [] OTHER -> TRUE

\* o is what json.loads can return: no tuple, no object, only str keys
RECURSIVE JsonNative(_)
JsonNative(o) ==
    CASE o.t = "list" -> \A i \in 1..Len(o.v) : JsonNative(o.v[i])
      [] o.t = "dict" -> \A i \in 1..Len(o.v) : o.v[i][1].t = "str" /\ JsonNative(o.v[i][2])
      [] o.t \in {"tuple", "obj"} -> FALSE
      [] OTHER -> TRUE

\* hand-written lines: the text, its kind and, for a valid line, the value it denotes
Line(kind, text, val) == [kind |-> kind, text |-> text, val |-> val]
LineCatalog ==
    { \* {"id": "1", "name": "entity1"}
      Line("valid", <<LBRACE, StrLit("id"), COLON, SPACE, StrLit("1"), COMMA, SPACE,
                      StrLit("name"), COLON, SPACE, StrLit("entity1"), RBRACE>>,
           Dict2(PyStr("id"), PyStr("1"), PyStr("name"), PyStr("entity1"))),
      \* {"id":2}
      Line("valid", <<LBRACE, StrLit("id"), COLON, Num("2"), RBRACE>>,
           Dict1(PyStr("id"), PyInt(2))),
      \*   { }   with blanks around and inside
      Line("valid", <<SPACE, LBRACE, SPACE, RBRACE, SPACE>>, PyDict(<<>>)),
      \* [1, null]
      Line("valid", <<LBRACKET, Num("1"), COMMA, SPACE, Lit("null"), RBRACKET>>,
           PyList(<<PyInt(1), PyNone>>)),
      \* {"a": true, "a": [{}]}   a repeated key
      Line("valid", <<LBRACE, StrLit("a"), COLON, SPACE, Lit("true"), COMMA, SPACE,
                      StrLit("a"), COLON, SPACE, LBRACKET, LBRACE, RBRACE, RBRACKET, RBRACE>>,
           Dict1(PyStr("a"), PyList(<<PyDict(<<>>)>>))),
      \* {"id": "1"
      Line("bad", <<LBRACE, StrLit("id"), COLON, SPACE, StrLit("1")>>, PyNone),
      \* ?
      Line("bad", <<JUNK>>, PyNone),
      \* {"id": "1",}
      Line("bad", <<LBRACE, StrLit("id"), COLON, SPACE, StrLit("1"), COMMA, RBRACE>>, PyNone),
      \* {} {}
      Line("bad", <<LBRACE, RBRACE, SPACE, LBRACE, RBRACE>>, PyNone),
      \* {"id" "1"}
      Line("bad", <<LBRACE, StrLit("id"), SPACE, StrLit("1"), RBRACE>>, PyNone),
      \* {1: "a"}
      Line("bad", <<LBRACE, Num("1"), COLON, SPACE, StrLit("a"), RBRACE>>, PyNone),
      \* an empty line, and a line of blanks
      Line("blank", <<>>, PyNone),
      Line("blank", <<SPACE, SPACE>>, PyNone) }

\* the text of a hand-written file; final_nl: whether its last line ends with a newline
HandFile(ls, final_nl) ==
    LET text == JoinLines([i \in 1..Len(ls) |-> ls[i].text])
    IN  TextFile(IF final_nl \/ text = <<>> THEN text ELSE SubSeq(text, 1, Len(text) - 1))

\* what a file may hold before _write_ndjson replaces it
StaleFiles ==
    { AbsentFile, UnreadableFile, TextFile(<<>>),
      TextFile(<<LBRACE, StrLit("id"), COLON, SPACE, StrLit("old"), RBRACE, NEWLINE>>),
      TextFile(<<JUNK>>) }

(***************************************************************************)
(* The NDJSON scenario: a file is written by the exporter or by hand, then *)
(* loaded by the importer.                                                 *)
(***************************************************************************)
NdInit ==
    /\ written = 0
    /\ loaded = <<>>
    /\ \/ /\ nd_pc = "hand"
          /\ entities = <<>>
          /\ labels \in SeqsUpTo(LineCatalog, MaxLines)
          /\ \E final_nl \in BOOLEAN : file = HandFile(labels, final_nl)
       \/ /\ nd_pc = "start"
          /\ entities \in EntityLists
          /\ labels = <<>>
          /\ file \in StaleFiles

\* exporter._write_ndjson(entities, filename, output_dir)
WriteNdjson ==
    /\ nd_pc \in {"hand", "start"}
    /\ \E fault \in {"none", "open", "write"} : \E k \in 0..Len(entities) :
          /\ fault = "write" => k < Len(entities)
          /\ fault # "write" => k = 0
          /\ LET r == _write_ndjson(entities, file, fault, k)
             IN  /\ file' = r.file
                 /\ written' = r.count
                 /\ nd_pc' = (IF fault = "none" THEN "written" ELSE "write_failed")
    /\ labels' = <<>>
    /\ UNCHANGED <<entities, loaded>>
    /\ UNCHANGED ndOthers

\* importer._load_ndjson(filepath)
LoadNdjson ==
    /\ nd_pc \in {"hand", "written", "write_failed"}
    /\ loaded' = _load_ndjson(file)
    /\ nd_pc' = (CASE nd_pc = "hand" -> "loaded_hand"
                   [] nd_pc = "written" -> "loaded_written"
                   [] OTHER -> "loaded_partial")
    /\ UNCHANGED <<entities, file, labels, written>>
    /\ UNCHANGED ndOthers

NdNext == WriteNdjson \/ LoadNdjson

\* the scenario is not part of the run
NdIdle ==
    /\ nd_pc = "off"
    /\ entities = <<>>
    /\ file = AbsentFile
    /\ labels = <<>>
    /\ written = 0
    /\ loaded = <<>>

(***************************************************************************)
(* The field-filter scenario: _filter_entity_fields applied to one record. *)
(***************************************************************************)
\* the field names of the three allow-lists, and four that are in none of them
FieldUniverse ==
    {"name", "displayName", "description", "fullyQualifiedName", "owners", "experts",
     "domain", "assets", "tags", "extension", "domainType", "parent", "teamType",
     "email", "parents", "users", "defaultRoles",
     "id", "version", "updatedAt", "href"}

\* the values a field may hold in an exported record
FieldValues(name) ==
    CASE name = "domain" ->
             { PyStr("Sales"),
               Dict2(PyStr("fullyQualifiedName"), PyStr("Sales.EU"), PyStr("name"), PyStr("EU")),
               Dict1(PyStr("name"), PyStr("EU")),
               Dict1(PyStr("name"), PyInt(7)),
               Dict1(PyStr("fullyQualifiedName"), PyNone),
               PyDict(<<>>) }
      [] name \in {"owners", "experts", "assets", "tags", "parents", "users", "defaultRoles"} ->
             { PyList(<<PyStr(name)>>) }
      [] name = "version" -> { PyInt(1) }
      [] OTHER -> { PyStr(name) }

\* the items of the records of exactly n fields, the keys distinct
RECURSIVE RecordItems(_)
RecordItems(n) ==
    IF n = 0 THEN { <<>> }
    ELSE UNION { UNION { { Append(items, <<PyStr(name), val>>) : val \in FieldValues(name) } :
                         name \in {f \in FieldUniverse : \A i \in 1..Len(items) : items[i][1] # PyStr(f)} } :
                 items \in RecordItems(n - 1) }

\* a record with every field of the universe
FullRecord ==
    LET RECURSIVE Build(_)
        Build(names) ==
            IF names = {} THEN <<>>
            ELSE LET name == CHOOSE f \in names : TRUE
                 IN  << <<PyStr(name), CHOOSE val \in FieldValues(name) : val.t = "dict" \/ name # "domain">> >>
                         \o Build(names \ {name})
    IN  PyDict(Build(FieldUniverse))

FilterInputs ==
    {PyDict(items) : items \in UNION {RecordItems(n) : n \in 0..MaxFields}}
        \cup {FullRecord, PyList(<<PyInt(1), PyNone>>)}

ImportTypes == {"data_products", "domains", "teams", "users", "policies", "roles"}

FltInit ==
    /\ flt_pc = "start"
    /\ rec \in FilterInputs
    /\ etype \in ImportTypes
    /\ filtered = [ok |-> TRUE, data |-> PyNone]

\* importer._filter_entity_fields(rec, etype)
FilterEntityFields ==
    /\ flt_pc = "start"
    /\ filtered' = _filter_entity_fields(rec, etype)
    /\ flt_pc' = "done"
    /\ UNCHANGED <<rec, etype>>
    /\ UNCHANGED fltOthers

FltNext == FilterEntityFields

FltIdle ==
    /\ flt_pc = "off"
    /\ rec = PyNone
    /\ etype = ""
    /\ filtered = [ok |-> TRUE, data |-> PyNone]


(***************************************************************************)
(* The construction scenario: OpenMetadataExporter(config_path) or         *)
(* OpenMetadataImporter(config_path), as __init__ runs it.                 *)
(***************************************************************************)
EnvValues(name) ==
    CASE name = "OPENMETADATA_SERVER_URL" -> {"", "http://env.example.com"}
      [] name = "OPENMETADATA_JWT_TOKEN" -> {"", "env_token"}
      [] name = "EXPORT_OUTPUT_DIR" -> {"", "/custom/export/dir"}
      [] name = "EXPORT_BATCH_SIZE" -> {"", "50"}
      [] name = "IMPORT_INPUT_DIR" -> {"", "/custom/import/dir"}
      [] name = "IMPORT_UPDATE_EXISTING" -> {"", "true", "True", "false", "1"}
      [] name = "IMPORT_SKIP_ON_ERROR" -> {"", "true", "TRUE", "false", "yes"}
      [] name = "LOG_LEVEL" -> {"", "DEBUG"}

EnvNames ==
    {"OPENMETADATA_SERVER_URL", "OPENMETADATA_JWT_TOKEN", "EXPORT_OUTPUT_DIR",
     "EXPORT_BATCH_SIZE", "IMPORT_INPUT_DIR", "IMPORT_UPDATE_EXISTING",
     "IMPORT_SKIP_ON_ERROR", "LOG_LEVEL"}

\* the environments with at most MaxEnvVars variables set
Environments ==
    UNION { {env \in [names -> UNION {EnvValues(n) : n \in names}] :
                \A n \in names : env[n] \in EnvValues(n)} :
            names \in {ns \in SUBSET EnvNames : Cardinality(ns) <= MaxEnvVars} }

\* what yaml.safe_load returns for the configuration file of the tests
FileConfigs ==
    [ server_url : {"http://test.example.com"},
      jwt_token : {"test_token"},
      output_dir : {"./test_exports"},
      batch_size : {10},
      input_dir : {"./test_imports"},
      update_existing : BOOLEAN,
      skip_on_error : BOOLEAN,
      level : {"INFO"} ]

NoConfig ==
    [ server_url |-> "", jwt_token |-> "", output_dir |-> "", batch_size |-> 0,
      input_dir |-> "", update_existing |-> FALSE, skip_on_error |-> FALSE, level |-> "" ]

CfgInit ==
    /\ cfg_pc = "new"
    /\ tool \in {"export", "import"}
    /\ \/ \E content \in FileConfigs : config_file = [state |-> "ok", content |-> content]
       \/ \E state \in {"missing", "malformed"} :
             config_file = [state |-> state, content |-> NoConfig]
    /\ environ \in Environments
    /\ config = NoConfig

\* self.config = self._load_config(config_path)
LoadConfig ==
    /\ cfg_pc = "new"
    /\ IF config_file.state = "ok"
       THEN cfg_pc' = "loaded" /\ config' = config_file.content
       ELSE cfg_pc' = "exit_1" /\ config' = config     \* sys.exit(1)
    /\ UNCHANGED <<tool, config_file, environ>>
    /\ UNCHANGED cfgOthers

\* self._apply_env_overrides(): in __init__, and again when a caller asks for it
ApplyEnvOverrides ==
    /\ cfg_pc \in {"loaded", "constructed"}
    /\ config' = IF tool = "export"
                 THEN Exporter_apply_env_overrides(config, environ)
                 ELSE Importer_apply_env_overrides(config, environ)
    /\ cfg_pc' = (IF cfg_pc = "loaded" THEN "overridden" ELSE "reapplied")
    /\ UNCHANGED <<tool, config_file, environ>>
    /\ UNCHANGED cfgOthers

\* self.om_client = self._create_client(): any exception ends the process
CreateClient ==
    /\ cfg_pc = "overridden"
    /\ \E client_ok \in BOOLEAN :
          cfg_pc' = (IF client_ok THEN "constructed" ELSE "exit_1")
    /\ UNCHANGED <<tool, config_file, environ, config>>
    /\ UNCHANGED cfgOthers

\* the values main may receive for --output-dir / --input-dir: not given (None), given
\* empty, given a directory
NoOption == [given |-> FALSE, value |-> ""]
CliOptions == {NoOption, [given |-> TRUE, value |-> ""], [given |-> TRUE, value |-> "/cli/dir"]}

\* both directories taken from the one option
main_options_both_dirs(cfg, tl, opt) ==
    IF opt.given /\ opt.value # ""
    THEN [cfg EXCEPT !.output_dir = opt.value, !.input_dir = opt.value]
    ELSE cfg

\* main, after the construction: `if output_dir: exporter.config['export']['output_dir']
\* = output_dir`, resp. `if input_dir: importer.config['import']['input_dir'] = input_dir`
main_options(cfg, tl, opt) ==
    IF opt.given /\ opt.value # ""
    THEN IF tl = "export"
         THEN [cfg EXCEPT !.output_dir = opt.value]
         ELSE [cfg EXCEPT !.input_dir = opt.value]
    ELSE cfg

\* main's handling of the command-line options, before the run starts
MainOptions ==
    /\ cfg_pc = "constructed"
    /\ \E opt \in CliOptions : config' = main_options(config, tool, opt)
    /\ cfg_pc' = "options"
    /\ UNCHANGED <<tool, config_file, environ>>
    /\ UNCHANGED cfgOthers

CfgNext == LoadConfig \/ ApplyEnvOverrides \/ CreateClient \/ MainOptions

CfgIdle ==
    /\ cfg_pc = "off"
    /\ tool = ""
    /\ config_file = [state |-> "missing", content |-> NoConfig]
    /\ environ = <<>>
    /\ config = NoConfig



(***************************************************************************)
(* The export scenario: export_all(selected_entities) on a constructed     *)
(* exporter.                                                               *)
(***************************************************************************)
\* the names a flag or a selection may carry: the ten known ones and an unknown one
FlagNames == Range(entity_mappings) \cup {"roles"}

\* configurations with at most MaxEnabled flags on, the other flags off or absent
RichConfigs ==
    UNION { { [name \in on |-> TRUE], [name \in FlagNames |-> name \in on] } :
            on \in {ns \in SUBSET FlagNames : Cardinality(ns) <= MaxEnabled} }

SampleConfigs ==
    { [name \in {"domains", "teams", "data_products"} |-> name # "data_products"],
      [name \in {"roles", "tables"} |-> TRUE],
      <<>> }

NotSelected == [given |-> FALSE, names |-> <<>>]
Selection(names) == [given |-> TRUE, names |-> names]

Team1 == SdkEntity(Dict2(PyStr("id"), PyStr("t1"), PyStr("name"), PyStr("Team 1")))
Team2 == SdkEntity(Dict2(PyStr("id"), PyObj("uuid-2"), PyStr("name"), PyStr("Team 2")))

\* a service that answers every listing and a disk that takes every write
HealthyService ==
    [name \in Range(entity_mappings) |->
        CASE name = "teams" -> Meets("ok", <<Team1, Team2>>, "none", 0)
          [] name = "users" -> Meets("ok", <<>>, "none", 0)
          [] OTHER -> Meets("ok", <<Team1>>, "none", 0)]

\* what exporting one entity type may meet
AnyMeets ==
    { Meets("raise", <<>>, "none", 0),
      Meets("no_attr", <<>>, "none", 0),
      Meets("ok", <<>>, "none", 0),
      Meets("ok", <<Team1, Team2>>, "none", 0),
      Meets("ok", <<Team1, Unconvertible>>, "none", 0),
      Meets("ok", <<Team1, Team2>>, "open", 0),
      Meets("ok", <<Team1, Team2>>, "write", 1) }

\* the services that differ from the healthy one on the entity types of names only
ServicesOn(names) ==
    { [name \in Range(entity_mappings) |->
          IF name \in names THEN m[name] ELSE HealthyService[name]] :
      m \in [names -> AnyMeets] }

\* an output directory that can be made and written to, and the ones that cannot
HealthyDisk == [mkdir_fails |-> FALSE, summary_fails |-> FALSE]
DiskStates ==
    { HealthyDisk,
      [mkdir_fails |-> TRUE, summary_fails |-> FALSE],
      [mkdir_fails |-> FALSE, summary_fails |-> TRUE] }

OldLine == <<LBRACE, StrLit("id"), COLON, SPACE, StrLit("old"), RBRACE, NEWLINE>>

ExInit ==
    /\ ex_pc = "start"
    /\ \/ /\ selected = NotSelected
          /\ export_config \in RichConfigs
          /\ service = HealthyService
       \/ /\ selected \in {Selection(names) : names \in SeqsUpTo(FlagNames, MaxSelected)}
          /\ export_config \in SampleConfigs
          /\ service = HealthyService
       \/ /\ selected \in {NotSelected, Selection(<<"domains", "teams">>)}
          /\ export_config \in SampleConfigs
          /\ service \in ServicesOn({"domains", "teams"})
    /\ \E stale \in BOOLEAN :
          ex_files = [name \in Range(entity_mappings) |->
                         IF stale THEN TextFile(OldLine) ELSE AbsentFile]
    /\ to_export = <<>>
    /\ ex_i = 0
    /\ export_calls = <<>>
    /\ export_stats = <<>>
    /\ total_exported = 0
    /\ export_summary = [written |-> FALSE, total |-> 0, counts |-> <<>>]
    /\ ex_disk \in DiskStates
    /\ ex_exit = "none"

\* export_all, up to the loop: _ensure_output_dir, then the working set is determined
ExportAllStart ==
    /\ ex_pc = "start"
    /\ IF ex_disk.mkdir_fails
       THEN /\ ex_pc' = "exit_1"           \* mkdir raises: main ends with sys.exit(1)
            /\ ex_exit' = "1"
            /\ UNCHANGED to_export
       ELSE /\ to_export' = entities_to_export(selected, export_config)
            /\ ex_pc' = "loop"
            /\ UNCHANGED ex_exit
    /\ UNCHANGED <<export_config, selected, service, ex_files, ex_i, export_calls,
                   export_stats, total_exported, export_summary, ex_disk>>
    /\ UNCHANGED exOthers

\* one turn of the loop of export_all
ExportEntityType ==
    /\ ex_pc = "loop"
    /\ ex_i < Len(to_export)
    /\ LET entity_name == to_export[ex_i + 1]
           r == _export_entity_type(service[entity_name], ex_files[entity_name])
       IN  /\ export_calls' = Append(export_calls, entity_name)
           /\ ex_files' = [ex_files EXCEPT ![entity_name] = r.file]
           /\ export_stats' = record_count(export_stats, entity_name, r.count)
           /\ total_exported' = total_exported + r.count
    /\ ex_i' = ex_i + 1
    /\ UNCHANGED <<ex_pc, export_config, selected, service, to_export, export_summary,
                   ex_disk, ex_exit>>
    /\ UNCHANGED exOthers

\* self._create_export_summary(output_dir, total_exported), after the loop
CreateExportSummary ==
    /\ ex_pc = "loop"
    /\ ex_i = Len(to_export)
    /\ IF ex_disk.summary_fails
       THEN /\ ex_pc' = "exit_1"           \* open or json.dump raises: sys.exit(1)
            /\ ex_exit' = "1"
            /\ UNCHANGED export_summary
       ELSE /\ export_summary' = [written |-> TRUE, total |-> total_exported,
                                  counts |-> export_stats]
            /\ ex_pc' = "done"
            /\ ex_exit' = "0"
    /\ UNCHANGED <<export_config, selected, service, ex_files, to_export, ex_i,
                   export_calls, export_stats, total_exported, ex_disk>>
    /\ UNCHANGED exOthers

ExNext == ExportAllStart \/ ExportEntityType \/ CreateExportSummary

ExIdle ==
    /\ ex_pc = "off"
    /\ export_config = <<>>
    /\ selected = NotSelected
    /\ service = <<>>
    /\ ex_files = <<>>
    /\ to_export = <<>>
    /\ ex_i = 0
    /\ export_calls = <<>>
    /\ export_stats = <<>>
    /\ total_exported = 0
    /\ export_summary = [written |-> FALSE, total |-> 0, counts |-> <<>>]
    /\ ex_disk = HealthyDisk
    /\ ex_exit = "none"

(***************************************************************************)
(* The import scenario: main of the import tool on a constructed importer, *)
(* either import_all or the import of a single entity type.                *)
(***************************************************************************)
RecordA ==
    PyDict(<< <<PyStr("id"), PyStr("1")>>, <<PyStr("name"), PyStr("a")>>,
              <<PyStr("domain"), Dict1(PyStr("fullyQualifiedName"), PyStr("d1"))>> >>)
RecordB == Dict1(PyStr("name"), PyStr("b"))

\* a file of one record
OneRecordFile == TextFile(DumpLines(<<RecordA>>))
\* a file of a record, a truncated line, a line holding a number, and a record
MixedFile ==
    TextFile(JoinLines(<<JsonDump(RecordA), <<LBRACE, StrLit("name"), COLON>>,
                         <<Num("7")>>, JsonDump(RecordB)>>))
\* a file of one blank line
BlankFile == TextFile(<<SPACE, NEWLINE>>)

\* a file of LongFileRecords lines, each holding a number
LongFile == TextFile(JoinLines([i \in 1..LongFileRecords |-> <<Num(ToString(i % 10))>>]))

FileChoices == {AbsentFile, UnreadableFile, BlankFile, OneRecordFile, MixedFile}

NoInputFiles == [entity_type \in ImportTypes |-> AbsentFile]

StandardDir ==
    [entity_type \in ImportTypes |->
        CASE entity_type = "domains" -> AbsentFile
          [] entity_type = "teams" -> MixedFile
          [] entity_type = "policies" -> BlankFile
          [] OTHER -> OneRecordFile]

\* the directories that hold files of the entity types of types only
DirsOn(types) ==
    { [entity_type \in ImportTypes |->
          IF entity_type \in types THEN d[entity_type] ELSE AbsentFile] :
      d \in [types -> FileChoices] }

ImportConfigs(orders) ==
    [import_order : orders, skip_on_error : BOOLEAN] \cup [import_order : orders]

SampleOrders ==
    { <<"domains", "teams">>, <<"teams", "roles", "users">>, <<"users", "data_products", "users">> }

\* configurations that carry update_existing, from the file or from
\* IMPORT_UPDATE_EXISTING
FlaggedConfigs(orders) ==
    [import_order : orders, skip_on_error : BOOLEAN, update_existing : BOOLEAN]

\* the configuration that differs from icfg in update_existing only
TwinConfig(icfg) ==
    [key \in DOMAIN icfg \cup {"update_existing"} |->
        IF key = "update_existing"
        THEN ("update_existing" \in DOMAIN icfg) => ~icfg.update_existing
        ELSE icfg[key]]

\* the importer of the twin run before main calls it
NoTwin == [calls |-> <<>>, errors |-> <<>>, success_count |-> 0, import_stats |-> <<>>,
           total_imported |-> 0, diverged |-> FALSE]

ImportAll == [kind |-> "all", entity_type |-> ""]
ImportOnly(entity_type) == [kind |-> "single", entity_type |-> entity_type]

DryRunAll == [kind |-> "dry_all", entity_type |-> ""]
DryRunOnly(entity_type) == [kind |-> "dry_single", entity_type |-> entity_type]
NoReport == [counts |-> <<>>, total |-> <<>>]

NoSummary == [written |-> FALSE, total |-> 0, counts |-> <<>>, errors_count |-> 0,
              errors |-> <<>>]

ImInit ==
    /\ im_pc = "start"
    /\ \/ /\ im_mode = ImportAll
          /\ import_config \in ImportConfigs(SeqsUpTo(ImportTypes, MaxOrder))
          /\ input_dir_exists = TRUE
          /\ in_files = StandardDir
       \/ /\ im_mode = ImportAll
          /\ import_config \in ImportConfigs(SampleOrders) \cup FlaggedConfigs(SampleOrders)
          /\ \/ /\ input_dir_exists = TRUE
                /\ in_files \in DirsOn(Range(import_config.import_order))
             \/ /\ input_dir_exists = FALSE
                /\ in_files = NoInputFiles
       \/ /\ im_mode \in {ImportOnly(entity_type) : entity_type \in ImportTypes}
          /\ import_config \in ImportConfigs({<<"domains", "teams">>})
          /\ \/ /\ input_dir_exists = TRUE
                /\ in_files \in DirsOn({im_mode.entity_type})
             \/ /\ input_dir_exists = FALSE
                /\ in_files = NoInputFiles
       \/ /\ im_mode = ImportAll
          /\ import_config \in ImportConfigs({<<"teams">>, <<"users", "teams">>})
          /\ input_dir_exists = TRUE
          /\ in_files = [StandardDir EXCEPT !["teams"] = LongFile]
       \/ /\ im_mode = DryRunAll
          /\ import_config \in ImportConfigs(SampleOrders)
          /\ \/ /\ input_dir_exists = TRUE
                /\ in_files \in DirsOn(Range(import_config.import_order))
             \/ /\ input_dir_exists = FALSE
                /\ in_files = NoInputFiles
       \/ /\ im_mode \in {DryRunOnly(entity_type) : entity_type \in ImportTypes}
          /\ import_config \in ImportConfigs({<<"domains", "teams">>})
          /\ \/ /\ input_dir_exists = TRUE
                /\ in_files \in DirsOn({im_mode.entity_type})
             \/ /\ input_dir_exists = FALSE
                /\ in_files = NoInputFiles
    /\ to_import = <<>>
    /\ im_t = 0
    /\ im_entities = <<>>
    /\ im_r = 0
    /\ success_count = 0
    /\ attempts = <<>>
    /\ calls = <<>>
    /\ errors = <<>>
    /\ returns = <<>>
    /\ import_stats = <<>>
    /\ total_imported = 0
    /\ exit_status = "none"
    /\ import_summary = NoSummary
    /\ dry_report = NoReport
    /\ twin = NoTwin

\* main up to the first entity type: import_all checks the input directory
MainStart ==
    /\ im_pc = "start"
    /\ im_mode.kind \in {"all", "single"}
    /\ IF im_mode.kind = "all" /\ ~input_dir_exists
       THEN /\ im_pc' = "exit_1"            \* sys.exit(1)
            /\ exit_status' = "1"
            /\ UNCHANGED to_import
       ELSE /\ im_pc' = "type"
            /\ to_import' = IF im_mode.kind = "all" THEN import_config.import_order
                            ELSE <<im_mode.entity_type>>
            /\ UNCHANGED exit_status
    /\ UNCHANGED <<im_mode, import_config, input_dir_exists, in_files, im_t, im_entities,
                   im_r, success_count, attempts, calls, errors, returns, import_stats,
                   total_imported, import_summary>>
    /\ UNCHANGED <<dry_report, twin, imOthers>>

\* _import_entity_type returns count to its caller: import_all records it
TypeReturns(entity_type, n, count, twin_count) ==
    /\ returns' = Append(returns, [type |-> entity_type, n |-> n, count |-> count])
    /\ IF im_mode.kind = "all"
       THEN /\ import_stats' = record_count(import_stats, entity_type, count)
            /\ total_imported' = total_imported + count
            /\ twin' = [twin EXCEPT
                           !.import_stats = record_count(@, entity_type, twin_count),
                           !.total_imported = @ + twin_count]
       ELSE UNCHANGED <<import_stats, total_imported, twin>>
    /\ im_t' = im_t + 1
    /\ im_pc' = "type"

\* _import_entity_type is called for the next entity type
ImportEntityTypeStart ==
    /\ im_pc = "type"
    /\ im_t < Len(to_import)
    /\ LET entity_type == to_import[im_t + 1]
           s == _import_entity_type(in_files[entity_type])
       IN  IF s.loop
           THEN /\ im_entities' = s.entities
                /\ im_r' = 0
                /\ success_count' = 0
                /\ im_pc' = "records"
                /\ twin' = [twin EXCEPT !.success_count = 0]
                /\ UNCHANGED <<returns, import_stats, total_imported, im_t>>
           ELSE /\ TypeReturns(entity_type, 0, 0, 0)
                /\ UNCHANGED <<im_entities, im_r, success_count>>
    /\ UNCHANGED <<im_mode, import_config, input_dir_exists, in_files, to_import, attempts,
                   calls, errors, exit_status, import_summary>>
    /\ UNCHANGED <<dry_report, imOthers>>

\* one turn of the loop of _import_entity_type
ImportEntity ==
    /\ im_pc = "records"
    /\ im_r < Len(im_entities)
    /\ \E sdk \in {"ok", "invalid", "error"} :
          LET entity_type == to_import[im_t + 1]
              r == _import_entity(im_entities[im_r + 1], entity_type, sdk, import_config)
              failed == r.outcome \in {"invalid", "error"}
              twin_r == _import_entity(im_entities[im_r + 1], entity_type, sdk,
                                       TwinConfig(import_config))
          IN  /\ twin' = [twin EXCEPT
                             !.calls = IF twin_r.call
                                       THEN Append(@, [type |-> entity_type, idx |-> im_r + 1,
                                                       data |-> twin_r.data])
                                       ELSE @,
                             !.errors = IF twin_r.outcome \in {"invalid", "error"}
                                        THEN Append(@, [type |-> entity_type, idx |-> im_r + 1])
                                        ELSE @,
                             !.success_count = IF ~twin_r.raises /\ twin_r.outcome = "ok"
                                               THEN @ + 1 ELSE @,
                             !.diverged = @ \/ (twin_r.raises # r.raises)]
              /\ attempts' = Append(attempts, [pos |-> im_t + 1, type |-> entity_type,
                                               idx |-> im_r + 1, outcome |-> r.outcome])
              /\ calls' = IF r.call
                          THEN Append(calls, [type |-> entity_type, idx |-> im_r + 1,
                                              data |-> r.data])
                          ELSE calls
              /\ errors' = IF failed
                           THEN Append(errors, [type |-> entity_type, idx |-> im_r + 1])
                           ELSE errors
              /\ IF r.raises
                 THEN /\ im_pc' = "exit_1"      \* the exception reaches main: sys.exit(1)
                      /\ exit_status' = "1"
                      /\ UNCHANGED <<im_r, success_count>>
                 ELSE /\ im_r' = im_r + 1
                      /\ success_count' = IF r.outcome = "ok" THEN success_count + 1
                                          ELSE success_count
                      /\ UNCHANGED <<im_pc, exit_status>>
    /\ UNCHANGED <<im_mode, import_config, input_dir_exists, in_files, to_import, im_t,
                   im_entities, returns, import_stats, total_imported, import_summary>>
    /\ UNCHANGED <<dry_report, imOthers>>

\* the loop of _import_entity_type is over: it returns success_count
ImportEntityTypeReturn ==
    /\ im_pc = "records"
    /\ im_r = Len(im_entities)
    /\ TypeReturns(to_import[im_t + 1], Len(im_entities), success_count, twin.success_count)
    /\ UNCHANGED <<im_mode, import_config, input_dir_exists, in_files, to_import,
                   im_entities, im_r, success_count, attempts, calls, errors, exit_status,
                   import_summary>>
    /\ UNCHANGED <<dry_report, imOthers>>

\* import_all after its loop: _create_import_summary, and main returns
CreateImportSummary ==
    /\ im_pc = "type"
    /\ im_mode.kind = "all"
    /\ im_t = Len(to_import)
    /\ import_summary' = [written |-> TRUE, total |-> total_imported,
                          counts |-> import_stats, errors_count |-> Len(errors),
                          errors |-> SummaryErrors(errors)]
    /\ im_pc' = "done"
    /\ exit_status' = "0"
    /\ UNCHANGED <<im_mode, import_config, input_dir_exists, in_files, to_import, im_t,
                   im_entities, im_r, success_count, attempts, calls, errors, returns,
                   import_stats, total_imported>>
    /\ UNCHANGED <<dry_report, twin, imOthers>>

\* main after the import of a single entity type
MainReturn ==
    /\ im_pc = "type"
    /\ im_mode.kind = "single"
    /\ im_t = Len(to_import)
    /\ im_pc' = "done"
    /\ exit_status' = "0"
    /\ UNCHANGED <<im_mode, import_config, input_dir_exists, in_files, to_import, im_t,
                   im_entities, im_r, success_count, attempts, calls, errors, returns,
                   import_stats, total_imported, import_summary>>
    /\ UNCHANGED <<dry_report, twin, imOthers>>

\* main with --dry-run: it loads the files, prints the counts and returns
DryRun ==
    /\ im_pc = "start"
    /\ im_mode.kind \in {"dry_all", "dry_single"}
    /\ dry_report' = dry_run(im_mode, import_config.import_order, in_files)
    /\ im_pc' = "done"
    /\ exit_status' = "0"
    /\ UNCHANGED <<im_mode, import_config, input_dir_exists, in_files, to_import, im_t,
                   im_entities, im_r, success_count, attempts, calls, errors, returns,
                   import_stats, total_imported, import_summary>>
    /\ UNCHANGED <<twin, imOthers>>

ImNext ==
    \/ MainStart
    \/ DryRun
    \/ ImportEntityTypeStart
    \/ ImportEntity
    \/ ImportEntityTypeReturn
    \/ CreateImportSummary
    \/ MainReturn

ImIdle ==
    /\ im_pc = "off"
    /\ im_mode = ImportAll
    /\ import_config = [import_order |-> <<>>]
    /\ input_dir_exists = FALSE
    /\ in_files = <<>>
    /\ to_import = <<>>
    /\ im_t = 0
    /\ im_entities = <<>>
    /\ im_r = 0
    /\ success_count = 0
    /\ attempts = <<>>
    /\ calls = <<>>
    /\ errors = <<>>
    /\ returns = <<>>
    /\ import_stats = <<>>
    /\ total_imported = 0
    /\ exit_status = "none"
    /\ import_summary = NoSummary
    /\ dry_report = NoReport
    /\ twin = NoTwin

(***************************************************************************)
(* The delete scenario: a run of delete_all_domains.py.                    *)
(***************************************************************************)
DomainIds == {"d1", "d2", "d3", "d4"}

\* the listings of at most MaxDomains domains, each domain listed once
DomainListings ==
    {l \in SeqsUpTo(DomainIds, MaxDomains) : \A i, j \in 1..Len(l) : l[i] = l[j] => i = j}

DelInit ==
    /\ del_pc = "start"
    /\ \/ /\ del_environ \in {[OPENMETADATA_JWT_TOKEN |-> "t"],
                             [OPENMETADATA_SERVER_URL |-> "", OPENMETADATA_JWT_TOKEN |-> "t"],
                             [OPENMETADATA_SERVER_URL |-> "http://test.example.com"]}
          /\ domains = [kind |-> "ok", entities |-> <<"d1", "d2">>]
       \/ /\ del_environ = [OPENMETADATA_SERVER_URL |-> "http://test.example.com",
                            OPENMETADATA_JWT_TOKEN |-> "t"]
          /\ \/ domains \in {[kind |-> k, entities |-> <<>>] : k \in {"raise", "no_attr"}}
             \/ \E l \in DomainListings : domains = [kind |-> "ok", entities |-> l]
    /\ del_i = 0
    /\ deletes = <<>>
    /\ del_exit = "none"

\* the script up to its loop: the environment, the connection and the listing
DeleteStart ==
    /\ del_pc = "start"
    /\ IF ~EnvTruthy(del_environ, "OPENMETADATA_SERVER_URL")
          \/ ~EnvTruthy(del_environ, "OPENMETADATA_JWT_TOKEN")
          \/ domains.kind # "ok"
       THEN del_pc' = "exit_1" /\ del_exit' = "1"      \* exit(1), or an uncaught exception
       ELSE del_pc' = "loop" /\ UNCHANGED del_exit
    /\ UNCHANGED <<del_environ, domains, del_i, deletes>>
    /\ UNCHANGED delOthers

\* one turn of the loop: metadata.delete(entity=Domain, entity_id=domain.id)
DeleteDomain ==
    /\ del_pc = "loop"
    /\ del_i < Len(domains.entities)
    /\ \E ok \in BOOLEAN :
          /\ deletes' = Append(deletes, [id |-> domains.entities[del_i + 1], ok |-> ok])
          /\ IF delete_continues(ok)
             THEN del_i' = del_i + 1 /\ UNCHANGED <<del_pc, del_exit>>
             ELSE del_pc' = "exit_1" /\ del_exit' = "1" /\ UNCHANGED del_i
    /\ UNCHANGED <<del_environ, domains>>
    /\ UNCHANGED delOthers

\* the loop is over: the script ends
DeleteFinish ==
    /\ del_pc = "loop"
    /\ del_i = Len(domains.entities)
    /\ del_pc' = "done"
    /\ del_exit' = "0"
    /\ UNCHANGED <<del_environ, domains, del_i, deletes>>
    /\ UNCHANGED delOthers

DelNext == DeleteStart \/ DeleteDomain \/ DeleteFinish

DelIdle ==
    /\ del_pc = "off"
    /\ del_environ = <<>>
    /\ domains = [kind |-> "ok", entities |-> <<>>]
    /\ del_i = 0
    /\ deletes = <<>>
    /\ del_exit = "none"

(***************************************************************************)
(* Specifications: one per scenario, the other scenarios idle.  Spec is a  *)
(* run of the import tool.                                                 *)
(***************************************************************************)
NdjsonInit == NdInit /\ FltIdle /\ CfgIdle /\ ExIdle /\ ImIdle /\ DelIdle
SpecNdjson == NdjsonInit /\ [][NdNext]_vars

FilterInit == FltInit /\ NdIdle /\ CfgIdle /\ ExIdle /\ ImIdle /\ DelIdle
SpecFilter == FilterInit /\ [][FltNext]_vars

ConfigInit == CfgInit /\ NdIdle /\ FltIdle /\ ExIdle /\ ImIdle /\ DelIdle
SpecConfig == ConfigInit /\ [][CfgNext]_vars

ExportInit == ExInit /\ NdIdle /\ FltIdle /\ CfgIdle /\ ImIdle /\ DelIdle
SpecExport == ExportInit /\ [][ExNext]_vars

DeleteInit == DelInit /\ NdIdle /\ FltIdle /\ CfgIdle /\ ExIdle /\ ImIdle
SpecDelete == DeleteInit /\ [][DelNext]_vars

Init == ImInit /\ NdIdle /\ FltIdle /\ CfgIdle /\ ExIdle /\ DelIdle
Next == ImNext
Spec == Init /\ [][Next]_vars

(***************************************************************************)
(* The tools as processes: the construction, a run of the import tool or a *)
(* run of the export tool, any of which the user may interrupt.            *)
(***************************************************************************)
\* KeyboardInterrupt while the exporter or importer is constructed
InterruptConstruction ==
    /\ cfg_pc \in {"new", "loaded", "overridden"}
    /\ cfg_pc' = "interrupted"             \* main: except KeyboardInterrupt, sys.exit(1)
    /\ UNCHANGED <<tool, config_file, environ, config>>
    /\ UNCHANGED cfgOthers

\* KeyboardInterrupt during a run of the import tool
InterruptImport ==
    /\ im_pc \in {"start", "type", "records"}
    /\ im_pc' = "interrupted"              \* main: except KeyboardInterrupt, sys.exit(1)
    /\ exit_status' = "1"
    /\ UNCHANGED <<im_mode, import_config, input_dir_exists, in_files, to_import, im_t,
                   im_entities, im_r, success_count, attempts, calls, errors, returns,
                   import_stats, total_imported, import_summary, dry_report, twin>>
    /\ UNCHANGED imOthers

\* KeyboardInterrupt during a run of the export tool
InterruptExport ==
    /\ ex_pc \in {"start", "loop"}
    /\ ex_pc' = "interrupted"              \* main: except KeyboardInterrupt, sys.exit(1)
    /\ ex_exit' = "1"
    /\ UNCHANGED <<export_config, selected, service, ex_files, to_export, ex_i,
                   export_calls, export_stats, total_exported, export_summary, ex_disk>>
    /\ UNCHANGED exOthers

ToolsInit ==
    \/ ImInit /\ NdIdle /\ FltIdle /\ CfgIdle /\ ExIdle /\ DelIdle
    \/ ExInit /\ NdIdle /\ FltIdle /\ CfgIdle /\ ImIdle /\ DelIdle
    \/ CfgInit /\ NdIdle /\ FltIdle /\ ExIdle /\ ImIdle /\ DelIdle

ToolsNext ==
    \/ LoadConfig
    \/ ApplyEnvOverrides
    \/ CreateClient
    \/ MainOptions
    \/ InterruptConstruction
    \/ MainStart
    \/ DryRun
    \/ ImportEntityTypeStart
    \/ ImportEntity
    \/ ImportEntityTypeReturn
    \/ CreateImportSummary
    \/ MainReturn
    \/ InterruptImport
    \/ ExportAllStart
    \/ ExportEntityType
    \/ CreateExportSummary
    \/ InterruptExport

SpecTools == ToolsInit /\ [][ToolsNext]_vars

(***************************************************************************)
(* Claims about the NDJSON writer and loader (under SpecNdjson).           *)
(***************************************************************************)
\* the values a hand-written file denotes: those of its valid lines, in file order
RECURSIVE ValidValues(_)
ValidValues(ls) ==
    IF ls = <<>> THEN <<>>
    ELSE IF ls[1].kind = "valid" THEN <<ls[1].val>> \o ValidValues(Tail(ls))
    ELSE ValidValues(Tail(ls))

\* C1 as stated: every list of mappings that json can serialize without default=
\* (tuples and non-string keys included) is read back equal to what was written.
C1_RoundTripSerializable ==
    (nd_pc = "loaded_written" /\ \A i \in 1..Len(entities) : JsonSerializable(entities[i]))
        => loaded = entities

\* C1 amended: a list of mappings built only from None, booleans, integers, strings,
\* lists and string-keyed dicts, written by _write_ndjson without an I/O failure and
\* read by _load_ndjson, comes back equal: same length, same order, same values.
C1_RoundTripJsonNative ==
    (nd_pc = "loaded_written" /\ \A i \in 1..Len(entities) : JsonNative(entities[i]))
        => /\ Len(loaded) = Len(entities)
           /\ written = Len(entities)
           /\ \A i \in 1..Len(entities) : loaded[i] = entities[i]

C1_Witness ==
    /\ nd_pc = "loaded_written"
    /\ Len(entities) >= 2
    /\ \A i \in 1..Len(entities) : JsonNative(entities[i])
    /\ entities[1] # entities[2]
    /\ entities[1].v # <<>>
    /\ loaded = entities

AppliedVars(t) ==
    IF t = "export"
    THEN {"OPENMETADATA_SERVER_URL", "OPENMETADATA_JWT_TOKEN", "EXPORT_OUTPUT_DIR"}
    ELSE {"OPENMETADATA_SERVER_URL", "OPENMETADATA_JWT_TOKEN", "IMPORT_INPUT_DIR",
          "IMPORT_UPDATE_EXISTING", "IMPORT_SKIP_ON_ERROR", "LOG_LEVEL"}

\* the configuration value of a variable is the environment's value val
HoldsEnvValue(cfg, name, val) ==
    CASE name = "OPENMETADATA_SERVER_URL" -> cfg.server_url = val
      [] name = "OPENMETADATA_JWT_TOKEN" -> cfg.jwt_token = val
      [] name = "EXPORT_OUTPUT_DIR" -> cfg.output_dir = val
      [] name = "IMPORT_INPUT_DIR" -> cfg.input_dir = val
      [] name = "IMPORT_UPDATE_EXISTING" -> cfg.update_existing = (val \in {"true", "True", "TRUE"})
      [] name = "IMPORT_SKIP_ON_ERROR" -> cfg.skip_on_error = (val \in {"true", "True", "TRUE"})
      [] name = "LOG_LEVEL" -> cfg.level = val

\* C5 as stated: a variable that is present in the environment, whatever its value,
\* decides the configuration value after construction.
C5_PresentEnvWins ==
    cfg_pc = "constructed"
        => \A name \in AppliedVars(tool) \cap DOMAIN environ :
              HoldsEnvValue(config, name, environ[name])

\* C5 amended: a variable the tool reads that is present with a non-empty value
\* decides the configuration value after construction, whatever the file says (a flag
\* is True exactly when the value is "true" in any letter case).
C5_NonEmptyEnvWins ==
    cfg_pc = "constructed"
        => \A name \in AppliedVars(tool) \cap DOMAIN environ :
              environ[name] # "" => HoldsEnvValue(config, name, environ[name])

C5_Witness ==
    /\ cfg_pc = "constructed"
    /\ tool = "import"
    /\ config_file.content.skip_on_error
    /\ "IMPORT_SKIP_ON_ERROR" \in DOMAIN environ
    /\ environ["IMPORT_SKIP_ON_ERROR"] = "false"
    /\ "IMPORT_INPUT_DIR" \in DOMAIN environ
    /\ environ["IMPORT_INPUT_DIR"] = "/custom/import/dir"
    /\ ~config.skip_on_error
    /\ config.input_dir = "/custom/import/dir"

\* int(s), for the decimal strings of the environment
DecimalStrings == {"50"}
DecimalValue(s) == CASE s = "50" -> 50

\* C6: EXPORT_BATCH_SIZE set to a decimal integer gives export.batch_size that integer
\* in the exporter's configuration, after construction and after _apply_env_overrides.
C6_BatchSizeOverride ==
    ( /\ tool = "export"
      /\ cfg_pc \in {"constructed", "reapplied"}
      /\ "EXPORT_BATCH_SIZE" \in DOMAIN environ
      /\ environ["EXPORT_BATCH_SIZE"] \in DecimalStrings )
        => config.batch_size = DecimalValue(environ["EXPORT_BATCH_SIZE"])

(***************************************************************************)
(* Claims about the working set of export_all (under SpecExport).          *)
(***************************************************************************)
\* how many times _export_entity_type was called for name
ExportCount(name) == Cardinality({i \in 1..Len(export_calls) : export_calls[i] = name})

\* C3 as stated: without an explicit selection, a finished export_all has exported once
\* every name whose enable flag is true and no other name.
C3_EnabledFlagsExported ==
    (ex_pc = "done" /\ ~selected.given)
        => \A name \in FlagNames :
              ExportCount(name) = IF FlagOn(export_config, name) THEN 1 ELSE 0

\* C3 amended: without an explicit selection, a finished export_all has exported once
\* every entity type of entity_mappings whose enable flag is true, and nothing else.
C3_EnabledKnownExported ==
    (ex_pc = "done" /\ ~selected.given)
        => \A name \in FlagNames :
              ExportCount(name) = IF name \in Range(entity_mappings) /\ FlagOn(export_config, name)
                                  THEN 1 ELSE 0

C3_Witness ==
    /\ ex_pc = "done"
    /\ ~selected.given
    /\ export_config = [name \in {"domains", "teams", "data_products"} |-> name # "data_products"]
    /\ Len(export_calls) = 2
    /\ Range(export_calls) = {"domains", "teams"}

\* C4 as stated: with an explicit list, a finished export_all has exported once every
\* name of the list and no other name, whatever the enable flags.
C4_SelectedExported ==
    (ex_pc = "done" /\ selected.given)
        => \A name \in FlagNames :
              ExportCount(name) = IF name \in Range(selected.names) THEN 1 ELSE 0

\* C4 amended: with an explicit non-empty list, a finished export_all has exported once
\* every entity type of entity_mappings named in the list and nothing else, whatever
\* the enable flags.
C4_SelectedKnownExported ==
    (ex_pc = "done" /\ selected.given /\ selected.names # <<>>)
        => \A name \in FlagNames :
              ExportCount(name) = IF name \in Range(selected.names) \cap Range(entity_mappings)
                                  THEN 1 ELSE 0

C4_Witness ==
    /\ ex_pc = "done"
    /\ selected = Selection(<<"domains", "teams">>)
    /\ ~FlagOn(export_config, "domains")
    /\ FlagOn(export_config, "tables")
    /\ export_calls = <<"domains", "teams">>

(***************************************************************************)
(* Claims about a run of the import tool (under Spec).                     *)
(***************************************************************************)
Failed(a) == a.outcome \in {"invalid", "error"}

IsDuplicateFree(seq) == \A i, j \in 1..Len(seq) : seq[i] = seq[j] => i = j

\* the [type, idx] of the attempts that failed, in order
RECURSIVE FailuresOf(_)
FailuresOf(as) ==
    IF as = <<>> THEN <<>>
    ELSE LET front == FailuresOf(SubSeq(as, 1, Len(as) - 1))
             last == as[Len(as)]
         IN  IF Failed(last) THEN Append(front, [type |-> last.type, idx |-> last.idx])
             ELSE front

C7_Case ==
    /\ im_pc = "type"
    /\ im_t < Len(to_import)
    /\ in_files[to_import[im_t + 1]].mode = "absent"

\* C7: importing an entity type whose file is absent returns 0 for that type, raises
\* nothing, calls the service for nothing, records no error, and goes on to the next
\* entity type.
C7_MissingFileCountsZero ==
    [][ C7_Case =>
          /\ returns' = Append(returns, [type |-> to_import[im_t + 1], n |-> 0, count |-> 0])
          /\ im_mode.kind = "all" => /\ import_stats'[to_import[im_t + 1]] = 0
                                     /\ total_imported' = total_imported
          /\ attempts' = attempts
          /\ calls' = calls
          /\ errors' = errors
          /\ exit_status' = "none"
          /\ im_pc' = "type"
          /\ im_t' = im_t + 1 ]_vars

C7_Witness ==
    \E i, j \in 1..Len(returns) :
        /\ i < j
        /\ in_files[returns[i].type].mode = "absent"
        /\ returns[i].count = 0
        /\ returns[j].count > 0

\* what C9 says of a run, an attempt being one invocation of _import_entity
C9_Continues ==
    /\ exit_status = "1" => ~input_dir_exists
    /\ errors = FailuresOf(attempts)
    /\ \A i \in 1..Len(returns) :
          /\ \A idx \in 1..returns[i].n :
                Cardinality({k \in 1..Len(attempts) :
                                /\ attempts[k].type = returns[i].type
                                /\ attempts[k].idx = idx}) = 1
          /\ returns[i].type \in ImplementedTypes =>
                returns[i].count =
                    returns[i].n - Cardinality({k \in 1..Len(attempts) :
                                                   attempts[k].pos = i /\ Failed(attempts[k])})
    /\ im_pc = "done" => [i \in 1..Len(returns) |-> returns[i].type] = to_import

\* C9 as stated: with skip_on_error true, once a record has failed, every failure has
\* appended one error message and the run goes on; every record of every entity type
\* gets exactly one attempt, and the success count of a type is the number of its
\* records that did not fail.
C9_SkipContinues ==
    (SkipOnError(import_config) /\ \E k \in 1..Len(attempts) : Failed(attempts[k]))
        => C9_Continues

\* C9 amended: the same, for an import_order that names no entity type twice.
C9_SkipContinuesDuplicateFree ==
    ( /\ SkipOnError(import_config)
      /\ IsDuplicateFree(import_config.import_order)
      /\ \E k \in 1..Len(attempts) : Failed(attempts[k]) )
        => C9_Continues

C9_Witness ==
    /\ SkipOnError(import_config)
    /\ IsDuplicateFree(import_config.import_order)
    /\ im_pc = "done"
    /\ \E i, j, k \in 1..Len(attempts) :
          /\ i < j /\ j < k
          /\ attempts[i].outcome = "error"
          /\ attempts[j].pos = attempts[i].pos
          /\ attempts[k].pos > attempts[i].pos

\* C10: with skip_on_error false the first failure ends the run: its error is
\* recorded, it is the last attempt made, no summary is written and the exit status
\* is 1.
C10_FirstFailureAborts ==
    (~SkipOnError(import_config) /\ \E k \in 1..Len(attempts) : Failed(attempts[k]))
        => /\ \A k \in 1..Len(attempts) : Failed(attempts[k]) => k = Len(attempts)
           /\ errors = FailuresOf(attempts)
           /\ Len(errors) = 1
           /\ im_pc = "exit_1"
           /\ exit_status = "1"
           /\ ~import_summary.written

C10_Witness ==
    /\ ~SkipOnError(import_config)
    /\ exit_status = "1"
    /\ attempts # <<>>
    /\ attempts[Len(attempts)].outcome = "error"
    /\ im_r + 1 < Len(im_entities)
    /\ im_t + 1 < Len(to_import)
    /\ in_files[to_import[im_t + 2]] = OneRecordFile

(***************************************************************************)
(* Claims about failures during export_all (under SpecExport).             *)
(***************************************************************************)
\* exporting an entity type that meets m fails: the listing raises, an entity cannot
\* be converted, or the file cannot be opened or written
ExportFails(m) ==
    \/ m.list = "raise"
    \/ m.list = "ok" /\ \E i \in 1..Len(m.ents) : ~m.ents[i].convertible
    \/ m.list # "raise" /\ m.fault # "none"

\* C11: an entity type whose export fails gets count 0; the failure ends nothing: the
\* loop goes through the whole working set in order, the summary step is reached, and
\* the summary is written (with count 0 for the failed types) unless the output
\* directory itself cannot be made or the summary file cannot be written.
C11_TypeFailureIsCaught ==
    /\ \A i \in 1..Len(export_calls) :
          ExportFails(service[export_calls[i]]) => export_stats[export_calls[i]] = 0
    /\ ex_pc = "loop" => export_calls = SubSeq(to_export, 1, ex_i)
    /\ ex_pc = "exit_1" => \/ ex_disk.mkdir_fails /\ export_calls = <<>>
                           \/ ex_disk.summary_fails /\ export_calls = to_export
    /\ ex_pc = "done" =>
          /\ export_calls = to_export
          /\ export_summary.written
          /\ ex_exit = "0"
          /\ \A name \in Range(to_export) :
                ExportFails(service[name]) => export_summary.counts[name] = 0

C11_Witness ==
    /\ ex_pc = "done"
    /\ export_summary.written
    /\ \E i, k \in 1..Len(export_calls) :
          /\ i < k
          /\ service[export_calls[i]].fault = "write"
          /\ export_stats[export_calls[i]] = 0
          /\ ~ExportFails(service[export_calls[k]])
          /\ export_stats[export_calls[k]] > 0

(***************************************************************************)
(* Claims about the order of an import (under Spec).                       *)
(***************************************************************************)
\* log, whose entries carry the type and the file index of a record, follows the
\* order of the entity types in to_import and, within a type, the order of the file
InImportOrder(log) ==
    \A k1, k2 \in 1..Len(log) :
        /\ (\E i, j \in 1..Len(to_import) :
               /\ i < j
               /\ to_import[i] # to_import[j]
               /\ to_import[i] = log[k1].type
               /\ to_import[j] = log[k2].type) => k1 < k2
        /\ (log[k1].type = log[k2].type /\ log[k1].idx < log[k2].idx) => k1 < k2

\* the record a call submits is the record at that index of the type's file, filtered
SubmitsFileRecords ==
    \A k \in 1..Len(calls) :
        LET ents == _load_ndjson(in_files[calls[k].type])
        IN  /\ calls[k].idx <= Len(ents)
            /\ calls[k].data = _filter_entity_fields(ents[calls[k].idx], calls[k].type).data

\* C12 as stated: in import_all every attempt and every call for a record of an entity
\* type comes before those for the records of the types at later positions of
\* import_order, and within a type they follow the order of the file.
C12_ImportOrder ==
    im_mode.kind = "all"
        => InImportOrder(attempts) /\ InImportOrder(calls) /\ SubmitsFileRecords

\* C12 amended: the same, for an import_order that names no entity type twice.
C12_ImportOrderDuplicateFree ==
    (im_mode.kind = "all" /\ IsDuplicateFree(import_config.import_order))
        => InImportOrder(attempts) /\ InImportOrder(calls) /\ SubmitsFileRecords

C12_Witness ==
    /\ im_mode.kind = "all"
    /\ IsDuplicateFree(import_config.import_order)
    /\ im_pc = "done"
    /\ \E k1, k2, k3 \in 1..Len(calls) :
          /\ k1 < k2 /\ k2 < k3
          /\ calls[k1].type = calls[k2].type
          /\ calls[k1].data # calls[k2].data
          /\ calls[k3].type # calls[k1].type

(***************************************************************************)
(* Claims about the dry run of the import tool (under Spec).               *)
(***************************************************************************)
\* the entity types a dry run looks at
DryRunTypes ==
    IF im_mode.kind = "dry_single" THEN <<im_mode.entity_type>>
    ELSE import_config.import_order

\* C13: a dry run, with or without a single-type selector, calls the service for
\* nothing and writes no summary; when it is over it has reported, for every entity
\* type it looks at whose file exists, in order, the number of records the file
\* loads to, and without a selector the total of these numbers.
C13_DryRunOnlyCounts ==
    im_mode.kind \in {"dry_all", "dry_single"} =>
        /\ calls = <<>>
        /\ attempts = <<>>
        /\ errors = <<>>
        /\ ~import_summary.written
        /\ exit_status # "1"
        /\ im_pc = "done" =>
              /\ [i \in 1..Len(dry_report.counts) |-> dry_report.counts[i].type]
                     = SelectSeq(DryRunTypes, LAMBDA et : in_files[et].mode # "absent")
              /\ \A i \in 1..Len(dry_report.counts) :
                    dry_report.counts[i].n
                        = Len(_load_ndjson(in_files[dry_report.counts[i].type]))
              /\ dry_report.total = IF im_mode.kind = "dry_single" THEN <<>>
                                    ELSE <<SumCounts(dry_report.counts)>>

C13_Witness ==
    /\ im_mode = DryRunAll
    /\ im_pc = "done"
    /\ Len(dry_report.counts) = 2
    /\ dry_report.counts[1].n = 3
    /\ dry_report.total = <<4>>
    /\ in_files[dry_report.counts[1].type] = MixedFile

(***************************************************************************)
(* Claims about the import summary (under Spec).                           *)
(***************************************************************************)
\* C14: the summary import_all writes lists the first min(10, n) error messages of the
\* run in the order the failures occurred, n being the number of errors recorded, and
\* its errors_count is n.
C14_SummaryErrors ==
    import_summary.written =>
        /\ errors = FailuresOf(attempts)
        /\ import_summary.errors_count = Len(errors)
        /\ Len(import_summary.errors) = (IF Len(errors) < 10 THEN Len(errors) ELSE 10)
        /\ \A k \in 1..Len(import_summary.errors) : import_summary.errors[k] = errors[k]

C14_Witness ==
    /\ import_summary.written
    /\ Len(errors) > 10
    /\ Len(import_summary.errors) = 10
    /\ import_summary.errors[10] # import_summary.errors[1]

(***************************************************************************)
(* Claims about entity types without a creation path (under Spec).         *)
(***************************************************************************)
\* C15: for an entity type other than data_products, domains, teams, users and
\* policies, no record leads to a call of the service or to an error, the success
\* count is 0, and the run is not aborted by any of its records.
C15_UnimplementedTypeIsSkipped ==
    /\ \A k \in 1..Len(attempts) :
          attempts[k].type \notin ImplementedTypes => attempts[k].outcome = "unimplemented"
    /\ \A k \in 1..Len(calls) : calls[k].type \in ImplementedTypes
    /\ \A k \in 1..Len(errors) : errors[k].type \in ImplementedTypes
    /\ \A i \in 1..Len(returns) :
          returns[i].type \notin ImplementedTypes =>
              /\ returns[i].count = 0
              /\ Cardinality({k \in 1..Len(attempts) : attempts[k].pos = i}) = returns[i].n
    /\ (exit_status = "1" /\ attempts # <<>>) =>
          attempts[Len(attempts)].type \in ImplementedTypes
    /\ (im_pc = "records" /\ to_import[im_t + 1] \notin ImplementedTypes) => exit_status = "none"

C15_Witness ==
    /\ im_pc = "done"
    /\ ~SkipOnError(import_config)
    /\ \E i, j \in 1..Len(returns) :
          /\ i < j
          /\ returns[i].type \notin ImplementedTypes
          /\ returns[i].n > 1
          /\ returns[i].count = 0
          /\ returns[j].count > 0

(***************************************************************************)
(* Claims about the exit status (under SpecTools).                         *)
(***************************************************************************)
\* C16: a run that gets to its end ends with status 0, whatever entity failed and was
\* skipped, whatever file was missing and whatever line was malformed; a run ends
\* with status 1 when the configuration file is missing or cannot be parsed, the
\* client cannot be constructed, the user interrupts, or an exception reaches main
\* (a failed record with skip_on_error false, an output directory or a summary file
\* that cannot be written), and for no recoverable failure.
C16_ExitStatus ==
    /\ (config_file.state # "ok" /\ cfg_pc \notin {"off", "new"})
          => cfg_pc \in {"exit_1", "interrupted"}
    /\ cfg_pc \in {"constructed", "reapplied"} => config_file.state = "ok"
    /\ exit_status = "0" <=> im_pc = "done"
    /\ exit_status = "1" <=> im_pc \in {"exit_1", "interrupted"}
    /\ im_pc = "exit_1" =>
          \/ im_mode.kind = "all" /\ ~input_dir_exists
          \/ /\ ~SkipOnError(import_config)
             /\ attempts # <<>>
             /\ Failed(attempts[Len(attempts)])
    /\ (~SkipOnError(import_config) /\ \E k \in 1..Len(attempts) : Failed(attempts[k]))
          => exit_status = "1"
    /\ ex_exit = "0" <=> ex_pc = "done"
    /\ ex_exit = "1" <=> ex_pc \in {"exit_1", "interrupted"}
    /\ ex_pc = "exit_1" => ex_disk.mkdir_fails \/ ex_disk.summary_fails
    /\ (ex_pc \in {"loop", "done"}) => ~ex_disk.mkdir_fails

C16_Witness ==
    /\ im_pc = "done"
    /\ exit_status = "0"
    /\ im_mode.kind = "all"
    /\ Len(errors) > 1
    /\ \E i, j \in 1..Len(returns) :
          /\ in_files[returns[i].type].mode = "absent"
          /\ in_files[returns[j].type] = MixedFile

(***************************************************************************)
(* Claims about the files export_all writes (under SpecExport).            *)
(***************************************************************************)
\* the entities the listing of an entity type returns
Listed(m) == IF m.list = "ok" THEN m.ents ELSE <<>>

\* C17: after the export of an entity type in which nothing failed, the type's file
\* holds one line per entity the listing returned, in that order, each the JSON text
\* of the entity and ended by a newline, and nothing of what the file held before;
\* the count of the type is the number of these entities.
C17_FileIsTheListing ==
    \A c \in 1..Len(export_calls) :
        LET name == export_calls[c]
            ents == Listed(service[name])
        IN  ~ExportFails(service[name]) =>
              /\ ex_files[name].mode = "ok"
              /\ SplitLines(ex_files[name].data, <<>>)
                     = [i \in 1..Len(ents) |-> JsonDump(ents[i].dict)]
              /\ ents # <<>> => ex_files[name].data[Len(ex_files[name].data)] = NEWLINE
              /\ export_stats[name] = Len(ents)

C17_Witness ==
    \E c \in 1..Len(export_calls) :
        /\ ~ExportFails(service[export_calls[c]])
        /\ Len(Listed(service[export_calls[c]])) = 2
        /\ export_stats[export_calls[c]] = 2
        /\ \E name \in Range(entity_mappings) \ Range(to_export) :
              ex_files[name] = TextFile(OldLine)

(***************************************************************************)
(* Claims about the bulk delete utility (under SpecDelete).                *)
(***************************************************************************)
\* C18: the delete calls made so far are for the first domains of the listing, one
\* call each, in listing order, whether or not earlier calls failed; when the script
\* is over every domain of the listing has had its call.
C18_OneDeletePerDomain ==
    /\ Len(deletes) <= Len(domains.entities)
    /\ \A k \in 1..Len(deletes) : deletes[k].id = domains.entities[k]
    /\ del_pc = "loop" => Len(deletes) = del_i
    /\ del_pc = "done" => Len(deletes) = Len(domains.entities)
    /\ (del_pc = "exit_1") => deletes = <<>>

C18_Witness ==
    /\ del_pc = "done"
    /\ Len(deletes) = 3
    /\ ~deletes[1].ok
    /\ deletes[3].ok

(***************************************************************************)
(* Claims about the domain of a data product (under SpecFilter).           *)
(***************************************************************************)
\* C19: for a data_products record whose domain is a mapping, the domain of the
\* filtered record, which is what the creation request is built from, is a string,
\* and it is the mapping's fullyQualifiedName when that is a string; a domain that is
\* a string stays as it is.
C19_DomainIsQualifiedName ==
    ( /\ flt_pc = "done"
      /\ etype = "data_products"
      /\ rec.t = "dict"
      /\ DictHas(rec, PyStr("domain")) )
        => LET domain == DictGet(rec, PyStr("domain"))
               submitted == DictGet(filtered.data, PyStr("domain"))
           IN  /\ filtered.ok
               /\ DictHas(filtered.data, PyStr("domain"))
               /\ domain.t = "str" => submitted = domain
               /\ domain.t = "dict" =>
                     /\ submitted.t = "str"
                     /\ ( /\ DictHas(domain, PyStr("fullyQualifiedName"))
                          /\ DictGet(domain, PyStr("fullyQualifiedName")).t = "str" )
                           => submitted = DictGet(domain, PyStr("fullyQualifiedName"))

(***************************************************************************)
(* Claims about the configuration after startup (under SpecTools).         *)
(***************************************************************************)
\* the construction is over: the file is loaded and the overrides are applied
Started == cfg_pc \in {"constructed", "options", "reapplied"}

\* C20 as stated: once the exporter or importer is constructed no step changes a
\* configuration value, and no step of a run (export_all, import_all, single-type
\* import, dry run) changes the configuration it runs with.
C20_ConfigReadOnly ==
    [][ /\ Started => config' = config
        /\ export_config' = export_config
        /\ import_config' = import_config ]_vars

\* C20 amended: after the construction the only step that changes a configuration
\* value is main's option handling, which replaces the exporter's output_dir by a
\* non-empty --output-dir and the importer's input_dir by a non-empty --input-dir and
\* leaves every other value; no step of a run changes the configuration it runs with.
C20_OnlyOptionsChangeConfig ==
    [][ /\ Started =>
              \/ config' = config
              \/ /\ cfg_pc = "constructed" /\ cfg_pc' = "options"
                 /\ \E opt \in CliOptions :
                       /\ opt.given /\ opt.value # ""
                       /\ config' = IF tool = "export"
                                    THEN [config EXCEPT !.output_dir = opt.value]
                                    ELSE [config EXCEPT !.input_dir = opt.value]
        /\ export_config' = export_config
        /\ import_config' = import_config ]_vars

C20_Witness ==
    /\ cfg_pc = "options"
    /\ tool = "import"
    /\ "IMPORT_INPUT_DIR" \in DOMAIN environ
    /\ environ["IMPORT_INPUT_DIR"] = "/custom/import/dir"
    /\ config.input_dir = "/cli/dir"
    /\ config.output_dir = config_file.content.output_dir

(***************************************************************************)
(* Claims about the counts of the summaries (under SpecTools).             *)
(***************************************************************************)
\* the sum of the counts of a per-type table
RECURSIVE SumStats(_)
SumStats(stats) ==
    IF DOMAIN stats = {} THEN 0
    ELSE LET name == CHOOSE key \in DOMAIN stats : TRUE
         IN  stats[name] + SumStats([key \in DOMAIN stats \ {name} |-> stats[key]])

\* C21: the summary written by export_all on a fresh exporter, and the one written by
\* import_all on a fresh importer whose import_order names no type twice, has a total
\* equal to the sum of its per-type counts, and its per-type counts have as keys
\* exactly the entity types the run processed.
C21_SummaryCountsConsistent ==
    /\ ex_pc = "done" =>
          /\ export_summary.written
          /\ export_summary.total = SumStats(export_summary.counts)
          /\ DOMAIN export_summary.counts = Range(export_calls)
          /\ DOMAIN export_summary.counts = Range(entities_to_export(selected, export_config))
    /\ ( /\ im_pc = "done"
         /\ im_mode.kind = "all"
         /\ IsDuplicateFree(import_config.import_order) ) =>
          /\ import_summary.written
          /\ import_summary.total = SumStats(import_summary.counts)
          /\ DOMAIN import_summary.counts = {returns[i].type : i \in 1..Len(returns)}
          /\ DOMAIN import_summary.counts = Range(import_config.import_order)

C21_Witness ==
    /\ im_pc = "done"
    /\ im_mode.kind = "all"
    /\ import_config.import_order = <<"teams", "roles", "users">>
    /\ import_summary.written
    /\ import_summary.counts = [key \in {"teams", "roles", "users"} |->
                                   CASE key = "teams" -> 2 [] key = "roles" -> 0
                                     [] key = "users" -> 1]
    /\ import_summary.total = 3

(***************************************************************************)
(* Claims about a failed listing or conversion (under SpecExport).         *)
(***************************************************************************)
\* list_entities raises, or an entity of the response cannot be converted
ListingOrConversionFails(meets) ==
    \/ meets.list = "raise"
    \/ meets.list = "ok" /\ \E i \in 1..Len(meets.ents) : ~meets.ents[i].convertible

\* C22: a turn of the export loop whose listing or conversion fails leaves the file
\* of that entity type as it was before the turn and records the count 0 for it, and
\* the summary written at the end holds 0 for every such type.
C22_FailedTypeKeepsFile ==
    [][ /\ ( /\ ex_pc = "loop"
             /\ ex_i' = ex_i + 1
             /\ ListingOrConversionFails(service[to_export[ex_i + 1]]) ) =>
              /\ ex_files'[to_export[ex_i + 1]] = ex_files[to_export[ex_i + 1]]
              /\ export_stats'[to_export[ex_i + 1]] = 0
              /\ total_exported' = total_exported
        /\ ex_pc' = "done" =>
              \A name \in Range(export_calls') :
                 ListingOrConversionFails(service[name]) =>
                    /\ export_summary'.counts[name] = 0
                    /\ ex_files'[name] \in {AbsentFile, TextFile(OldLine)} ]_vars

C22_Witness ==
    /\ ex_pc = "done"
    /\ export_calls = <<"domains", "teams">>
    /\ service["domains"].list = "raise"
    /\ service["teams"] = Meets("ok", <<Team1, Unconvertible>>, "none", 0)
    /\ ex_files["domains"] = TextFile(OldLine)
    /\ ex_files["teams"] = TextFile(OldLine)
    /\ export_summary.written
    /\ export_summary.counts["domains"] = 0
    /\ export_summary.counts["teams"] = 0

(***************************************************************************)
(* Claims about update_existing (under Spec).                              *)
(***************************************************************************)
\* C23: an import run and the run of an importer that differs from it in the value of
\* update_existing only, over the same files and the same answers of the service,
\* issue the same calls in the same order, record the same errors, keep the same
\* counts and the same total, and abort at the same record if at all.
C23_UpdateExistingHasNoEffect ==
    /\ twin.calls = calls
    /\ twin.errors = errors
    /\ twin.success_count = success_count
    /\ twin.import_stats = import_stats
    /\ twin.total_imported = total_imported
    /\ ~twin.diverged

C23_Witness ==
    /\ im_pc = "done"
    /\ im_mode.kind = "all"
    /\ "update_existing" \in DOMAIN import_config
    /\ ~import_config.update_existing
    /\ TwinConfig(import_config).update_existing
    /\ Len(calls) >= 2
    /\ errors # <<>>
    /\ total_imported >= 1
    /\ twin.calls = calls
    /\ twin.total_imported = total_imported

=============================================================================
